---- MODULE Spec2Model ----
(***************************************************************************)
(* Model of toggl-scraper: the single-flight guard of App.RunOnce, the     *)
(* sync executor SyncUseCase.Run, the MySQL sink's upserts and the /sync   *)
(* trigger endpoint, with one scheduling loop and concurrent trigger       *)
(* requests as callers of RunOnce.                                         *)
(***************************************************************************)
EXTENDS Integers, Sequences, FiniteSets, TLC

\* ------------------------------------------------------------------ bounds
\* Longest list the source returns from ListProjects / ListTimeEntries.
MaxBatch == 2

\* ------------------------------------------------------------- callers
\* The scheduling loop of main and the in-flight /sync requests.
Sched == "sched"

Requests == {"h1", "h2"}

Callers == {Sched} \cup Requests

Methods == {"GET", "POST", "PUT"}

\* ------------------------------------------------------------- errors
\* A nil error.
ErrNil == "<nil>"

\* errors.New("sync already running") in App.RunOnce.
ErrAlreadyRunning == "sync already running"

\* The message the /sync handler compares err.Error() with.
ConflictMessage == "sync already running"

\* Failures of the source client (ListProjects, ListTimeEntries).
SourceErrors == {"toggl: unexpected status 500: "}

\* Failures of the sink (BeginTx, PrepareContext, ExecContext, Commit).
SinkErrors == {"context deadline exceeded"}

StatusOK == 200

StatusMethodNotAllowed == 405

StatusConflict == 409

StatusInternalServerError == 500

\* ------------------------------------------------------------- domain
\* A Go pointer (*int64, *time.Time): <<>> is nil, <<v>> points to v.
NilPtr == <<>>

Ptr(v) == <<v>>

\* A SQL NULL and a SQL value in a row.
NULL == <<>>

Val(v) == <<v>>

\* time.Time: an instant (sec) seen in a location (zone offset, hours).
Time(sec, zone) == [sec |-> sec, zone |-> zone]

\* Time.UTC(): the same instant in the UTC location.
UTC(t) == [sec |-> t.sec, zone |-> 0]

\* []string: a nil slice or a (possibly empty) list of tags.
NilTags == [isNil |-> TRUE, elems |-> <<>>]

Tags(s) == [isNil |-> FALSE, elems |-> s]

\* domain.TimeEntry values the source may return.
EntryCatalog ==
    { [ID |-> 1, Description |-> "Dev work", ProjectID |-> Ptr(123),
       WorkspaceID |-> Ptr(456), Tags |-> Tags(<<"dev", "feature">>),
       Start |-> Time(9, 2), Stop |-> Ptr(Time(10, 2)), DurationSec |-> 5400],
      [ID |-> 1, Description |-> "Dev work (edited)", ProjectID |-> NilPtr,
       WorkspaceID |-> NilPtr, Tags |-> NilTags,
       Start |-> Time(9, 0), Stop |-> NilPtr, DurationSec |-> -1],
      [ID |-> 2, Description |-> "Meeting", ProjectID |-> NilPtr,
       WorkspaceID |-> Ptr(456), Tags |-> Tags(<<"meeting">>),
       Start |-> Time(11, 0), Stop |-> Ptr(Time(12, 0)), DurationSec |-> 3600] }

\* domain.Project values the source may return.
ProjectCatalog ==
    { [ID |-> 123, WorkspaceID |-> 456, Name |-> "Alpha", Active |-> TRUE,
       Private |-> FALSE, Color |-> "#fff", ClientID |-> NilPtr, At |-> Time(5, 1)],
      [ID |-> 123, WorkspaceID |-> 456, Name |-> "Alpha 2", Active |-> FALSE,
       Private |-> TRUE, Color |-> "#000", ClientID |-> Ptr(7), At |-> Time(6, 0)],
      [ID |-> 124, WorkspaceID |-> 456, Name |-> "Beta", Active |-> TRUE,
       Private |-> FALSE, Color |-> "#0f0", ClientID |-> Ptr(7), At |-> Time(5, 0)] }

\* The lists of length at most n over S.
SeqsUpTo(S, n) == UNION { [1..k -> S] : k \in 0..n }

\* What the remote API holds: the projects and entries its lists are made of.
\* Remote APIs holding several versions of several records of one kind.
SyncSources ==
    { [projects |-> ProjectCatalog,
       entries |-> {e \in EntryCatalog : e.Description = "Meeting"}],
      [projects |-> {p \in ProjectCatalog : p.Name = "Alpha"},
       entries |-> EntryCatalog] }

\* A remote API holding one project and one entry.
SmallSource ==
    [projects |-> {p \in ProjectCatalog : p.Name = "Alpha"},
     entries |-> {e \in EntryCatalog : e.Description = "Meeting"}]

\* ------------------------------------------------------------- sink rows
RECURSIVE JoinQuoted(_)
\* The elements of a JSON array of strings: "a","b".
JoinQuoted(s) ==
    IF s = <<>> THEN ""
    ELSE IF Len(s) = 1 THEN "\"" \o s[1] \o "\""
    ELSE "\"" \o s[1] \o "\"," \o JoinQuoted(Tail(s))

\* json.Marshal(e.Tags): a nil slice is null, a list is a JSON array.
MarshalTags(t) == IF t.isNil THEN "null" ELSE "[" \o JoinQuoted(t.elems) \o "]"

\* Mutant: an absent project, workspace or stop is written as zero.
EntryRow_ZeroForNil(e) ==
    [id |-> e.ID,
     description |-> e.Description,
     project_id |-> IF e.ProjectID # NilPtr THEN Val(e.ProjectID[1]) ELSE Val(0),
     workspace_id |-> IF e.WorkspaceID # NilPtr THEN Val(e.WorkspaceID[1]) ELSE Val(0),
     tags |-> MarshalTags(e.Tags),
     start |-> UTC(e.Start),
     stop |-> IF e.Stop # NilPtr THEN Val(UTC(e.Stop[1])) ELSE Val(UTC(e.Start)),
     duration_sec |-> e.DurationSec]

\* The arguments SyncEntries binds for one entry: the row it writes.
EntryRow(e) ==
    [id |-> e.ID,
     description |-> e.Description,
     project_id |-> IF e.ProjectID # NilPtr THEN Val(e.ProjectID[1]) ELSE NULL,
     workspace_id |-> IF e.WorkspaceID # NilPtr THEN Val(e.WorkspaceID[1]) ELSE NULL,
     tags |-> MarshalTags(e.Tags),
     start |-> UTC(e.Start),
     stop |-> IF e.Stop # NilPtr THEN Val(UTC(e.Stop[1])) ELSE NULL,
     duration_sec |-> e.DurationSec]

\* The arguments SyncProjects binds for one project: the row it writes.
ProjectRow(p) ==
    [id |-> p.ID,
     workspace_id |-> p.WorkspaceID,
     name |-> p.Name,
     active |-> p.Active,
     is_private |-> p.Private,
     color |-> p.Color,
     client_id |-> IF p.ClientID # NilPtr THEN Val(p.ClientID[1]) ELSE NULL,
     at |-> UTC(p.At)]

\* Mutant: INSERT IGNORE, a row whose id is already stored is left as it is.
Upsert_KeepExisting(table, row) ==
    IF \E i \in DOMAIN table : table[i].id = row.id
    THEN table
    ELSE Append(table, row)

\* Mutant: a plain INSERT into a table without the primary key.
Upsert_InsertOnly(table, row) == Append(table, row)

\* INSERT ... ON DUPLICATE KEY UPDATE on a table with primary key id: the
\* row with that id has every other column overwritten, or the row is added.
\* A table is the list of its rows.
Upsert(table, row) ==
    IF \E i \in DOMAIN table : table[i].id = row.id
    THEN [i \in DOMAIN table |-> IF table[i].id = row.id THEN row ELSE table[i]]
    ELSE Append(table, row)

\* A transaction: the committed table and the transaction's working copy.
BeginTx(table) == [base |-> table, work |-> table]

ExecContext(tx, row) == [tx EXCEPT !.work = Upsert(@, row)]

Commit(tx) == tx.work

\* Mutant: statements executed outside a transaction stay in the table.
Rollback_Autocommit(tx) == tx.work

Rollback(tx) == tx.base

RECURSIVE ExecRows(_, _, _)
\* The loop over the batch: the first n rows executed in order.
ExecRows(tx, rows, n) ==
    IF n = 0 THEN tx
    ELSE ExecContext(ExecRows(tx, rows, n - 1), rows[n])

\* Where a sink call fails, if it does: at BeginTx, at PrepareContext, at the
\* ExecContext of record i, at Commit, or nowhere.
FailPoints(n) ==
    { [at |-> a, i |-> 0] : a \in {"ok", "begin", "prepare", "commit"} }
        \cup { [at |-> "exec", i |-> k] : k \in 1..n }

\* The body shared by Client.SyncEntries and Client.SyncProjects: the table
\* and the error they leave, for the rows of the batch, a failure point and
\* the error the driver reports there.
SyncRows(table, rows, fail, e) ==
    IF Len(rows) = 0 THEN [table |-> table, err |-> ErrNil]
    ELSE IF fail.at = "begin" THEN [table |-> table, err |-> e]
    ELSE IF fail.at = "prepare" THEN [table |-> Rollback(BeginTx(table)), err |-> e]
    ELSE IF fail.at = "exec"
         THEN [table |-> Rollback(ExecRows(BeginTx(table), rows, fail.i - 1)), err |-> e]
    ELSE IF fail.at = "commit"
         THEN [table |-> Rollback(ExecRows(BeginTx(table), rows, Len(rows))), err |-> e]
    ELSE [table |-> Commit(ExecRows(BeginTx(table), rows, Len(rows))), err |-> ErrNil]

\* Client.SyncEntries.
SyncEntries(table, es, fail, e) ==
    SyncRows(table, [i \in DOMAIN es |-> EntryRow(es[i])], fail, e)

\* Client.SyncProjects.
SyncProjects(table, ps, fail, e) ==
    SyncRows(table, [i \in DOMAIN ps |-> ProjectRow(ps[i])], fail, e)

\* ------------------------------------------------------------- time
\* An instant is a number of hours since 1970-01-01T00:00:00Z; 24*time.Hour.
Day == 24

\* The last year of the calendar dates tried; the first one is three years
\* earlier, so that a leap year is always among them.
LastYear == 2026

Years == (LastYear - 3)..LastYear

IsLeap(y) == (y % 4 = 0 /\ y % 100 # 0) \/ y % 400 = 0

DaysIn(y, m) ==
    IF m = 2 THEN (IF IsLeap(y) THEN 29 ELSE 28)
    ELSE IF m \in {4, 6, 9, 11} THEN 30
    ELSE 31

ValidDate(y, m, d) == m \in 1..12 /\ d \in 1..DaysIn(y, m)

\* The days from 1970-01-01 to the civil date y-m-d, as the time package
\* computes them: years counted from March, in 400-year eras.
DaysFromCivil(y, m, d) ==
    LET yy == IF m <= 2 THEN y - 1 ELSE y
        era == yy \div 400
        yoe == yy - era * 400
        mp == (m + 9) % 12
        doy == (153 * mp + 2) \div 5 + d - 1
        doe == yoe * 365 + yoe \div 4 - yoe \div 100 + doy
    IN era * 146097 + doe - 719468

\* The civil date of a day number: t.Year(), t.Month(), t.Day().
CivilFromDays(z) ==
    LET zz == z + 719468
        era == zz \div 146097
        doe == zz - era * 146097
        yoe == (doe - doe \div 1460 + doe \div 36524 - doe \div 146096) \div 365
        doy == doe - (365 * yoe + yoe \div 4 - yoe \div 100)
        mp == (5 * doy + 2) \div 153
        d == doy - (153 * mp + 2) \div 5 + 1
        m == IF mp < 10 THEN mp + 3 ELSE mp - 9
        y == yoe + era * 400
    IN [y |-> IF m <= 2 THEN y + 1 ELSE y, m |-> m, d |-> d]

\* time.Date(y, m, d, 0, 0, 0, 0, time.UTC).
DateUTC(y, m, d) == DaysFromCivil(y, m, d) * Day

\* The civil date of an instant in UTC.
CivilUTC(t) == CivilFromDays(t \div Day)

\* ------------------------------------------------------------- window parser
\* A boundary token: the text of --from / --to or of the from / to query
\* parameter. Its form is how it is written: empty, RFC 3339 (date, hour
\* and UTC offset in hours), a date yyyy-mm-dd, or anything else. The
\* fields of a written date need not name a day of the calendar.
Token(form, y, m, d, h, off) ==
    [form |-> form, y |-> y, m |-> m, d |-> d, h |-> h, off |-> off]

EmptyToken == Token("empty", 0, 0, 0, 0, 0)

OtherToken == Token("other", 0, 0, 0, 0, 0)

DateToken(y, m, d) == Token("date", y, m, d, 0, 0)

RFC3339Token(y, m, d, h, off) == Token("rfc3339", y, m, d, h, off)

\* time.Parse(time.RFC3339, val): the instant written, or an error.
ParseRFC3339(val) ==
    IF /\ val.form = "rfc3339"
       /\ ValidDate(val.y, val.m, val.d)
       /\ val.h \in 0..23
    THEN [ok |-> TRUE, t |-> DateUTC(val.y, val.m, val.d) + val.h - val.off]
    ELSE [ok |-> FALSE, t |-> 0]

\* time.Parse("2006-01-02", val): midnight UTC of the date, or an error.
ParseDate(val) ==
    IF val.form = "date" /\ ValidDate(val.y, val.m, val.d)
    THEN [ok |-> TRUE, t |-> DateUTC(val.y, val.m, val.d)]
    ELSE [ok |-> FALSE, t |-> 0]

\* The date-only branch of the start parsers.
StartOfDate(d) ==
    LET c == CivilUTC(d) IN DateUTC(c.y, c.m, c.d)

\* Mutant: the end of a date is taken to be its own midnight.
EndOfDate_SameDay(d) ==
    LET c == CivilUTC(d) IN DateUTC(c.y, c.m, c.d)

\* The date-only branch of the end parsers: midnight after d.Add(24h).
EndOfDate(d) ==
    LET c == CivilUTC(d + Day) IN DateUTC(c.y, c.m, c.d)

\* The outcome of a parser: a time, or (command line only) exit status 1.
Parsed(t) == [exit |-> FALSE, t |-> t]

Exit1 == [exit |-> TRUE, t |-> 0]

\* Mutant: an invalid --from falls back to the default.
parseStart_Fallback(val, defaultVal) ==
    IF val = EmptyToken THEN Parsed(defaultVal)
    ELSE IF ParseRFC3339(val).ok THEN Parsed(ParseRFC3339(val).t)
    ELSE IF ParseDate(val).ok THEN Parsed(StartOfDate(ParseDate(val).t))
    ELSE Parsed(defaultVal)

\* parseStart of the command line.
parseStart(val, defaultVal) ==
    IF val = EmptyToken THEN Parsed(defaultVal)
    ELSE IF ParseRFC3339(val).ok THEN Parsed(ParseRFC3339(val).t)
    ELSE IF ParseDate(val).ok THEN Parsed(StartOfDate(ParseDate(val).t))
    ELSE Exit1

\* parseEnd of the command line.
parseEnd(val, defaultVal) ==
    IF val = EmptyToken THEN Parsed(defaultVal)
    ELSE IF ParseRFC3339(val).ok THEN Parsed(ParseRFC3339(val).t)
    ELSE IF ParseDate(val).ok THEN Parsed(EndOfDate(ParseDate(val).t))
    ELSE Exit1

\* parseStartHTTP of the trigger endpoint.
parseStartHTTP(val, defaultVal) ==
    IF val = EmptyToken THEN defaultVal
    ELSE IF ParseRFC3339(val).ok THEN ParseRFC3339(val).t
    ELSE IF ParseDate(val).ok THEN StartOfDate(ParseDate(val).t)
    ELSE defaultVal

\* Mutant: the trigger endpoint takes an end date to be its own midnight.
parseEndHTTP_DateAsStart(val, defaultVal) ==
    IF val = EmptyToken THEN defaultVal
    ELSE IF ParseRFC3339(val).ok THEN ParseRFC3339(val).t
    ELSE IF ParseDate(val).ok THEN StartOfDate(ParseDate(val).t)
    ELSE defaultVal

\* parseEndHTTP of the trigger endpoint.
parseEndHTTP(val, defaultVal) ==
    IF val = EmptyToken THEN defaultVal
    ELSE IF ParseRFC3339(val).ok THEN ParseRFC3339(val).t
    ELSE IF ParseDate(val).ok THEN EndOfDate(ParseDate(val).t)
    ELSE defaultVal

\* ------------------------------------------------------------- locations
\* A location: its offset from UTC in hours, first the base offset and then,
\* from each change on, the offset of that change. A name the zone database
\* does not know is not valid.
Location(name, valid, base, changes) ==
    [name |-> name, valid |-> valid, base |-> base, changes |-> changes]

UTCLocation == Location("UTC", TRUE, 0, <<>>)

\* Europe/Berlin in 2025: summer time from 30 March 01:00 UTC, standard time
\* again from 26 October 01:00 UTC.
Berlin ==
    Location("Europe/Berlin", TRUE, 1,
             << [at |-> DateUTC(2025, 3, 30) + 1, off |-> 2],
                [at |-> DateUTC(2025, 10, 26) + 1, off |-> 1] >>)

UnknownLocation == Location("Europe/Bonn", FALSE, 0, <<>>)

\* The number of offset changes of l that have happened by t.
Period(l, t) == Cardinality({ i \in DOMAIN l.changes : l.changes[i].at <= t })

\* The offset of l in force at t.
Offset(l, t) ==
    IF Period(l, t) = 0 THEN l.base ELSE l.changes[Period(l, t)].off

\* t.Date() in l: the civil date of the local time.
CivilIn(l, t) == CivilFromDays((t + Offset(l, t)) \div Day)

\* time.Date(y, m, d, 0, 0, 0, 0, l): the offset in force at the instant
\* read as UTC is tried first, and looked up again if the result falls
\* outside the period of that offset.
DateIn(l, y, m, d) ==
    LET unix == DateUTC(y, m, d)
        guess == Offset(l, unix)
        utc == unix - guess
        offset == IF Period(l, utc) = Period(l, unix) THEN guess ELSE Offset(l, utc)
    IN unix - offset

\* nextMidnight(t) for t in location l.
nextMidnight(l, t) ==
    LET c == CivilIn(l, t)
        midnight == DateIn(l, c.y, c.m, c.d)
    IN IF ~(t > midnight)
       THEN (IF t = midnight THEN midnight + Day ELSE midnight)
       ELSE midnight + Day

\* ------------------------------------------------------------- migrations
\* A file name is the list of its characters, without the directory and the
\* extension: 0001_init.sql is written 0 0 0 1 _ i.
Digits == <<"0", "1", "2", "3", "4", "5", "6", "7", "8", "9">>

IsDigit(ch) == \E d \in DOMAIN Digits : Digits[d] = ch

DigitValue(ch) == (CHOOSE d \in DOMAIN Digits : Digits[d] = ch) - 1

\* The byte of a character: digits come before the underscore, and the
\* underscore before the lower-case letters.
Byte(ch) ==
    IF IsDigit(ch) THEN 48 + DigitValue(ch)
    ELSE IF ch = "_" THEN 95
    ELSE IF ch = "a" THEN 97
    ELSE IF ch = "b" THEN 98
    ELSE IF ch = "i" THEN 105
    ELSE 112

RECURSIVE LexLess(_, _)
\* a < b as Go compares strings: byte by byte, a proper prefix first.
LexLess(a, b) ==
    IF b = <<>> THEN FALSE
    ELSE IF a = <<>> THEN TRUE
    ELSE IF Byte(Head(a)) # Byte(Head(b)) THEN Byte(Head(a)) < Byte(Head(b))
    ELSE LexLess(Tail(a), Tail(b))

RECURSIVE SortStrings_Descending(_)
\* Mutant: the file names in descending order.
SortStrings_Descending(names) ==
    IF names = {} THEN <<>>
    ELSE LET last == CHOOSE n \in names : \A o \in names \ {n} : LexLess(o, n)
         IN <<last>> \o SortStrings_Descending(names \ {last})

RECURSIVE SortStrings(_)
\* sort.Strings(files): the file names in ascending order.
SortStrings(names) ==
    IF names = {} THEN <<>>
    ELSE LET first == CHOOSE n \in names : \A o \in names \ {n} : LexLess(n, o)
         IN <<first>> \o SortStrings(names \ {first})

\* strings.IndexByte(name, '_'), counting from 0; -1 if there is none.
IndexUnderscore(name) ==
    IF \E k \in DOMAIN name : name[k] = "_"
    THEN (CHOOSE k \in DOMAIN name :
            name[k] = "_" /\ \A j \in 1..(k - 1) : name[j] # "_") - 1
    ELSE -1

RECURSIVE Atoi(_)
\* strconv.Atoi of a list of digits.
Atoi(ds) ==
    IF ds = <<>> THEN 0
    ELSE 10 * Atoi(SubSeq(ds, 1, Len(ds) - 1)) + DigitValue(ds[Len(ds)])

\* parseVersion(name): the number before the first underscore, or an error
\* if there is no underscore, nothing before it, or something else than
\* digits before it.
parseVersion(name) ==
    LET i == IndexUnderscore(name)
        prefix == SubSeq(name, 1, i)
    IN IF i <= 0 THEN [ok |-> FALSE, v |-> 0]
       ELSE IF \E k \in DOMAIN prefix : ~IsDigit(prefix[k]) THEN [ok |-> FALSE, v |-> 0]
       ELSE [ok |-> TRUE, v |-> Atoi(prefix)]

\* A script: its file name and the number of statements of its batch.
Script(name, stmts) == [name |-> name, stmts |-> stmts]

\* The scripts of the repository: 0001_init.sql and 0002_projects.sql, one
\* CREATE TABLE each.
RepoScripts ==
    { Script(<<"0", "0", "0", "1", "_", "i">>, 1),
      Script(<<"0", "0", "0", "2", "_", "p">>, 1) }

\* The sets of scripts tried: the repository's, two with prefixes of
\* different lengths and several statements, two with the same version,
\* and one with a name that has no prefix.
ScriptSets ==
    { RepoScripts,
      { Script(<<"2", "_", "a">>, 2), Script(<<"1", "0", "_", "b">>, 1) },
      { Script(<<"0", "0", "0", "1", "_", "a">>, 1), Script(<<"1", "_", "b">>, 1) },
      { Script(<<"0", "0", "0", "1", "_", "i">>, 2), Script(<<"a", "b">>, 1) } }

\* The effect of one statement of a script on the schema.
Effect(name, k) == [script |-> name, stmt |-> k]

\* The effects of the first n statements of a script.
Effects(name, n) == { Effect(name, k) : k \in 1..n }

\* The elements of a list.
Range(seq) == { seq[k] : k \in DOMAIN seq }

\* Mutant: nothing is taken to be applied.
loadApplied_None(rows) == {}

\* loadApplied: the set of the versions in schema_migrations.
loadApplied(rows) == Range(rows)

\* The locals of App.New and migrate.Run: the sorted files, the position in
\* them, the ledger rows loaded, the versions applied, the error, the
\* scripts executed by this run, whether New has returned, and whether the
\* process started before this one had migrate.Run return nil.
Mig(files, i, loaded, err) ==
    [files |-> files, i |-> i, loaded |-> loaded, applied |-> loadApplied(loaded),
     err |-> err, ran |-> <<>>, done |-> FALSE, after |-> FALSE]

NoMig == Mig(<<>>, 1, <<>>, ErrNil)

\* ------------------------------------------------------------- state
VARIABLES
    source,        \* what the remote API holds (fixed during a behaviour)
    running,       \* App.running: 0 idle, 1 a sync is in progress
    pc,            \* where each caller is
    err,           \* the error of each caller's RunOnce / Run
    admitted,      \* whether the caller's current RunOnce passed tryBeginRun
    status,        \* the status written to each request (0: none yet)
    projects,      \* Run's local: the fetched projects
    entries,       \* Run's local: the fetched entries
    calls,         \* the collaborator calls of each caller's current Run
    entryTable,    \* toggl_time_entries
    projectTable,  \* toggl_projects
    lastEntries,   \* the batch of the last successful SyncEntries
    lastProjects,  \* the batch of the last successful SyncProjects
    repeated,      \* whether the last successful SyncEntries / SyncProjects
                   \* was given the same batch as the one before it
    latest,        \* per table and id, the record most recently persisted
                   \* and whether it replaced a different version
    now,           \* the wall clock: time.Now()
    boot,          \* the instant the process started
    flags,         \* the command line: -once, -daily, -from, -to
    loc,           \* the location loaded from Sync.Timezone
    tokens,        \* the boundary tokens clients send to /sync
    query,         \* the from / to parameters of each request being served
    window,        \* the arguments from, to of each caller's RunOnce
    exit,          \* the exit status of the process, once it has exited
    next,          \* the daily loop's local: the instant it sleeps until
    prev,          \* the instant the daily loop slept until the time before
    probe,         \* a parser function applied to a token, and its result
    cancelled,     \* whether the shutdown signal has cancelled main's context
    failed,        \* whether the last run of the scheduling loop failed
    scripts,       \* the migration scripts embedded in the binary
    ledger,        \* schema_migrations: the versions, in insertion order
    schema,        \* the statements of the scripts in effect in the database
    execLog,       \* the scripts whose SQL was executed, over all starts
    mig,           \* the locals of migrate.Run and of App.New
    starts         \* the number of times the process was started

vars == <<source, running, pc, err, admitted, status, projects, entries, calls,
          entryTable, projectTable, lastEntries, lastProjects, repeated,
          latest, now, boot, flags, loc, tokens, query, window, exit, next,
          prev, probe, cancelled, failed, scripts, ledger, schema, execLog,
          mig, starts>>

appVars == <<running, admitted>>

runVars == <<projects, entries, calls>>

storeVars == <<entryTable, projectTable, lastEntries, lastProjects, repeated,
               latest>>

\* What is fixed when the process starts.
envVars == <<boot, flags, loc, tokens>>

\* The locals of main and of its daily loop.
mainVars == <<exit, next, prev>>

timeVars == <<now, envVars, query, window, mainVars, probe>>

\* The shutdown signal and the outcome the scheduling loop logged last.
ctlVars == <<cancelled, failed>>

\* The database as the migrator sees it.
dbVars == <<ledger, schema, execLog>>

\* The migrator: its scripts, the database, its locals, the process starts.
migVars == <<scripts, dbVars, mig, starts>>

NoWindow == [from |-> 0, to |-> 0]

\* No parser applied yet to the token val with the default def.
Probe(val, def) == [fn |-> "none", val |-> val, def |-> def, out |-> Exit1]

NoProbe == Probe(EmptyToken, 0)

NoQuery == [from |-> EmptyToken, to |-> EmptyToken]

\* The e2e test's starting instant, 2025-08-01T09:00:00Z.
TestNow == DateUTC(2025, 8, 1) + 9

\* The flags of a command line: the mode and the boundary tokens.
Flags(once, daily, from, to) ==
    [once |-> once, daily |-> daily, from |-> from, to |-> to]

\* The state after App.New: idle guard, migrated and empty tables, no
\* request being served.
InitApp ==
    /\ running = 0
    /\ err = [c \in Callers |-> ErrNil]
    /\ admitted = [c \in Callers |-> FALSE]
    /\ status = [c \in Requests |-> 0]
    /\ projects = [c \in Callers |-> <<>>]
    /\ entries = [c \in Callers |-> <<>>]
    /\ calls = [c \in Callers |-> <<>>]
    /\ entryTable = <<>>
    /\ projectTable = <<>>
    /\ lastEntries = <<>>
    /\ lastProjects = <<>>
    /\ repeated = [entries |-> FALSE, projects |-> FALSE]
    /\ latest = [entries |-> <<>>, projects |-> <<>>]
    /\ query = [c \in Requests |-> NoQuery]
    /\ window = [c \in Callers |-> NoWindow]
    /\ exit = NilPtr
    /\ next = 0
    /\ prev = NilPtr
    /\ cancelled = FALSE
    /\ failed = FALSE
    /\ starts = 1

\* The database and App.New after the scripts of the repository were applied.
Migrated ==
    /\ scripts = RepoScripts
    /\ ledger = <<1, 2>>
    /\ schema = UNION { Effects(sc.name, sc.stmts) : sc \in RepoScripts }
    /\ execLog = <<>>
    /\ mig = [NoMig EXCEPT !.done = TRUE]

\* The periodic mode waiting for its ticker, in UTC, clients sending no
\* boundaries.
InitState ==
    /\ InitApp
    /\ Migrated
    /\ pc = [c \in Callers |-> "idle"]
    /\ now = TestNow
    /\ boot = TestNow
    /\ flags = Flags(FALSE, FALSE, EmptyToken, EmptyToken)
    /\ loc = UTCLocation
    /\ tokens = {EmptyToken}
    /\ probe = NoProbe

Init == InitState /\ source = SmallSource

InitSync == InitState /\ source \in SyncSources

RECURSIVE Observed(_, _, _)
\* The history of a committed batch: for each id among its first n records,
\* the last record with that id, and whether an earlier different version of
\* it had been persisted.
Observed(seen, batch, n) ==
    IF n = 0 THEN seen
    ELSE LET before == Observed(seen, batch, n - 1)
             r == batch[n]
         IN (r.ID :> [rec |-> r,
                      replaced |-> r.ID \in DOMAIN before /\ before[r.ID].rec # r])
                @@ before

\* One collaborator call of Run: which, whether it succeeded, and the number
\* of records returned or passed.
Call(op, ok, n) == [op |-> op, ok |-> ok, n |-> n]

\* The results of the source's ListProjects and ListTimeEntries: a failure,
\* or a list of at most MaxBatch records.
ListProjects ==
    { [list |-> <<>>, err |-> e] : e \in SourceErrors }
        \cup { [list |-> ps, err |-> ErrNil] : ps \in SeqsUpTo(source.projects, MaxBatch) }

ListTimeEntries ==
    { [list |-> <<>>, err |-> e] : e \in SourceErrors }
        \cup { [list |-> es, err |-> ErrNil] : es \in SeqsUpTo(source.entries, MaxBatch) }

\* ------------------------------------------------------------- callers
\* The /sync handler up to its call of RunOnce: the method check and the
\* window parsed from the query.
HandleSync(c) ==
    /\ pc[c] \in {"idle", "responded"}
    /\ \E m \in Methods :
        IF m # "GET" /\ m # "POST"
        THEN /\ status' = [status EXCEPT ![c] = StatusMethodNotAllowed]
             /\ pc' = [pc EXCEPT ![c] = "responded"]
             /\ UNCHANGED <<query, window>>
        ELSE /\ status' = [status EXCEPT ![c] = 0]
             /\ pc' = [pc EXCEPT ![c] = "tryBeginRun"]
             /\ \E fromStr \in tokens, toStr \in tokens :
                 LET toTime == parseEndHTTP(toStr, now)
                     fromTime == parseStartHTTP(fromStr, toTime - Day)
                 IN /\ query' = [query EXCEPT ![c] = [from |-> fromStr, to |-> toStr]]
                    /\ window' = [window EXCEPT ![c] = [from |-> fromTime, to |-> toTime]]
    /\ UNCHANGED <<source, ctlVars, migVars, now, envVars, mainVars, probe, running, err, admitted,
                   runVars, storeVars>>

\* Mutant: every error is an internal server error.
ResponseStatus_NoConflict(e) ==
    IF e # ErrNil THEN StatusInternalServerError ELSE StatusOK

\* The status the /sync handler chooses for the error RunOnce returned.
ResponseStatus(e) ==
    IF e # ErrNil
    THEN IF e = ConflictMessage THEN StatusConflict ELSE StatusInternalServerError
    ELSE StatusOK

\* The /sync handler after RunOnce returned: it writes the response.
WriteResponse(c) ==
    /\ pc[c] = "returned"
    /\ status' = [status EXCEPT ![c] = ResponseStatus(err[c])]
    /\ pc' = [pc EXCEPT ![c] = "responded"]
    /\ err' = [err EXCEPT ![c] = ErrNil]
    /\ admitted' = [admitted EXCEPT ![c] = FALSE]
    /\ query' = [query EXCEPT ![c] = NoQuery]
    /\ window' = [window EXCEPT ![c] = NoWindow]
    /\ UNCHANGED <<source, ctlVars, migVars, now, envVars, mainVars, probe, running, runVars,
                   storeVars>>

\* Mutant: a tick calls RunOnce without waiting for the run in progress.
Tick_NotWaiting ==
    /\ pc[Sched] \in {"idle", "ListProjects", "ListTimeEntries"}
    /\ ~flags.once /\ ~flags.daily
    /\ pc' = [pc EXCEPT ![Sched] = "tryBeginRun"]
    /\ window' = [window EXCEPT ![Sched] = [from |-> now - Day, to |-> now]]
    /\ UNCHANGED <<source, ctlVars, migVars, now, envVars, query, mainVars, probe, running, err, admitted, status, runVars, storeVars>>

\* Mutant: every tick reuses the window of the flags.
Tick_WindowOfFlags ==
    /\ pc[Sched] = "idle"
    /\ ~flags.once /\ ~flags.daily
    /\ pc' = [pc EXCEPT ![Sched] = "tryBeginRun"]
    /\ UNCHANGED <<source, ctlVars, migVars, timeVars, running, err, admitted,
                   status, runVars, storeVars>>

\* The periodic loop: the ticker fires and the loop calls RunOnce for the
\* 24 hours before now.
Tick ==
    /\ pc[Sched] = "idle"
    /\ ~flags.once /\ ~flags.daily
    /\ pc' = [pc EXCEPT ![Sched] = "tryBeginRun"]
    /\ window' = [window EXCEPT ![Sched] = [from |-> now - Day, to |-> now]]
    /\ UNCHANGED <<source, ctlVars, migVars, now, envVars, query, mainVars, probe, running, err, admitted, status, runVars, storeVars>>

\* The periodic loop: RunOnce returned, the outcome is logged and the
\* loop waits again.
LoopLog ==
    /\ pc[Sched] = "returned"
    /\ ~flags.once /\ ~flags.daily
    /\ pc' = [pc EXCEPT ![Sched] = "idle"]
    /\ failed' = (err[Sched] # ErrNil)
    /\ err' = [err EXCEPT ![Sched] = ErrNil]
    /\ admitted' = [admitted EXCEPT ![Sched] = FALSE]
    /\ UNCHANGED <<source, cancelled, migVars, timeVars, running, status, runVars,
                   storeVars>>

\* ------------------------------------------------------------- App.RunOnce
\* Mutant: RunOnce without the guard, every caller is admitted.
tryBeginRun_Unguarded(c) ==
    /\ pc[c] = "tryBeginRun"
    /\ running' = 1
    /\ admitted' = [admitted EXCEPT ![c] = TRUE]
    /\ pc' = [pc EXCEPT ![c] = "ListProjects"]
    /\ UNCHANGED <<source, ctlVars, migVars, timeVars, err, status, runVars, storeVars>>

\* Mutant: a plain read followed by a write; the read may be stale and see 0.
tryBeginRun_ReadThenWrite(c) ==
    /\ pc[c] = "tryBeginRun"
    /\ \E seen \in {running, 0} :
        IF seen = 0
        THEN /\ running' = 1
             /\ admitted' = [admitted EXCEPT ![c] = TRUE]
             /\ pc' = [pc EXCEPT ![c] = "ListProjects"]
        ELSE /\ pc' = [pc EXCEPT ![c] = "rejected"]
             /\ UNCHANGED <<running, admitted>>
    /\ UNCHANGED <<source, ctlVars, migVars, timeVars, err, status, runVars, storeVars>>

\* running.CompareAndSwap(0, 1) and the branch of RunOnce on its result.
tryBeginRun(c) ==
    /\ pc[c] = "tryBeginRun"
    /\ IF running = 0
       THEN /\ running' = 1
            /\ admitted' = [admitted EXCEPT ![c] = TRUE]
            /\ pc' = [pc EXCEPT ![c] = "ListProjects"]
       ELSE /\ pc' = [pc EXCEPT ![c] = "rejected"]
            /\ UNCHANGED <<running, admitted>>
    /\ UNCHANGED <<source, ctlVars, migVars, timeVars, err, status, runVars, storeVars>>

\* Mutant: defer a.endRun() registered before the tryBeginRun check.
RunOnceRejected_DeferFirst(c) ==
    /\ pc[c] = "rejected"
    /\ err' = [err EXCEPT ![c] = ErrAlreadyRunning]
    /\ pc' = [pc EXCEPT ![c] = "returned"]
    /\ running' = 0
    /\ UNCHANGED <<source, ctlVars, migVars, timeVars, admitted, status, runVars, storeVars>>

\* return errors.New("sync already running"): no deferred call is pending.
RunOnceRejected(c) ==
    /\ pc[c] = "rejected"
    /\ err' = [err EXCEPT ![c] = ErrAlreadyRunning]
    /\ pc' = [pc EXCEPT ![c] = "returned"]
    /\ UNCHANGED <<source, ctlVars, migVars, timeVars, appVars, status, runVars, storeVars>>

\* Mutant: RunOnce returns without releasing the guard.
endRun_NotReleased(c) ==
    /\ pc[c] = "endRun"
    /\ pc' = [pc EXCEPT ![c] = "returned"]
    /\ calls' = [calls EXCEPT ![c] = <<>>]
    /\ UNCHANGED <<source, ctlVars, migVars, timeVars, running, err, admitted, status, projects, entries, storeVars>>

\* Mutant: a.endRun() called after a successful Run only, not deferred.
endRun_OnSuccessOnly(c) ==
    /\ pc[c] = "endRun"
    /\ running' = IF err[c] = ErrNil THEN 0 ELSE running
    /\ pc' = [pc EXCEPT ![c] = "returned"]
    /\ calls' = [calls EXCEPT ![c] = <<>>]
    /\ UNCHANGED <<source, ctlVars, migVars, timeVars, err, admitted, status, projects, entries, storeVars>>

\* The deferred a.endRun() and the return of RunOnce with Run's error.
endRun(c) ==
    /\ pc[c] = "endRun"
    /\ running' = 0
    /\ pc' = [pc EXCEPT ![c] = "returned"]
    /\ calls' = [calls EXCEPT ![c] = <<>>]
    /\ UNCHANGED <<source, ctlVars, migVars, timeVars, err, admitted, status, projects, entries, storeVars>>

\* ------------------------------------------------------------- SyncUseCase.Run
\* Run's first check (missing Toggl or Sink) never fires on a use case built
\* by New, which sets both; Run starts at ListProjects.
\* Mutant: a failed ListProjects is logged and the run goes on to the entries.
Run_ListProjects_IgnoreError(c) ==
    /\ pc[c] = "ListProjects"
    /\ \E r \in ListProjects :
        /\ calls' = [calls EXCEPT ![c] = Append(@, Call("ListProjects", r.err = ErrNil, Len(r.list)))]
        /\ projects' = [projects EXCEPT ![c] = r.list]
        /\ pc' = [pc EXCEPT ![c] =
                    IF Len(r.list) > 0 THEN "SyncProjects" ELSE "ListTimeEntries"]
    /\ UNCHANGED <<source, ctlVars, migVars, timeVars, appVars, err, status, entries, storeVars>>

\* Mutant: SyncProjects is called whatever the length of the list.
Run_ListProjects_NoEmptyCheck(c) ==
    /\ pc[c] = "ListProjects"
    /\ \E r \in ListProjects :
        /\ calls' = [calls EXCEPT ![c] = Append(@, Call("ListProjects", r.err = ErrNil, Len(r.list)))]
        /\ IF r.err # ErrNil
           THEN /\ err' = [err EXCEPT ![c] = r.err]
                /\ pc' = [pc EXCEPT ![c] = "endRun"]
                /\ UNCHANGED projects
           ELSE /\ projects' = [projects EXCEPT ![c] = r.list]
                /\ pc' = [pc EXCEPT ![c] = "SyncProjects"]
                /\ UNCHANGED err
    /\ UNCHANGED <<source, ctlVars, migVars, timeVars, appVars, status, entries, storeVars>>

\* uc.Toggl.ListProjects and the branches on its result.
Run_ListProjects(c) ==
    /\ pc[c] = "ListProjects"
    /\ \E r \in ListProjects :
        /\ calls' = [calls EXCEPT ![c] = Append(@, Call("ListProjects", r.err = ErrNil, Len(r.list)))]
        /\ IF r.err # ErrNil
           THEN /\ err' = [err EXCEPT ![c] = r.err]
                /\ pc' = [pc EXCEPT ![c] = "endRun"]
                /\ UNCHANGED projects
           ELSE /\ projects' = [projects EXCEPT ![c] = r.list]
                /\ pc' = [pc EXCEPT ![c] =
                            IF Len(r.list) > 0 THEN "SyncProjects" ELSE "ListTimeEntries"]
                /\ UNCHANGED err
    /\ UNCHANGED <<source, ctlVars, migVars, timeVars, appVars, status, entries, storeVars>>

\* Mutant: a failed SyncProjects is logged and the run goes on.
Run_SyncProjects_LogOnly(c) ==
    /\ pc[c] = "SyncProjects"
    /\ \E fail \in FailPoints(Len(projects[c])), e \in SinkErrors :
        LET r == SyncProjects(projectTable, projects[c], fail, e) IN
        /\ projectTable' = r.table
        /\ calls' = [calls EXCEPT ![c] = Append(@, Call("SyncProjects", r.err = ErrNil, Len(projects[c])))]
        /\ pc' = [pc EXCEPT ![c] = "ListTimeEntries"]
        /\ IF r.err # ErrNil
           THEN UNCHANGED <<lastProjects, repeated, latest>>
           ELSE /\ lastProjects' = projects[c]
                /\ repeated' = [repeated EXCEPT !.projects = (lastProjects = projects[c])]
                /\ latest' = [latest EXCEPT !.projects =
                                 Observed(@, projects[c], Len(projects[c]))]
    /\ projects' = [projects EXCEPT ![c] = <<>>]
    /\ UNCHANGED <<source, ctlVars, migVars, timeVars, appVars, err, status, entries, entryTable, lastEntries>>

\* uc.Sink.SyncProjects and the branch on its result.
Run_SyncProjects(c) ==
    /\ pc[c] = "SyncProjects"
    /\ \E fail \in FailPoints(Len(projects[c])), e \in SinkErrors :
        LET r == SyncProjects(projectTable, projects[c], fail, e) IN
        /\ projectTable' = r.table
        /\ calls' = [calls EXCEPT ![c] = Append(@, Call("SyncProjects", r.err = ErrNil, Len(projects[c])))]
        /\ IF r.err # ErrNil
           THEN /\ err' = [err EXCEPT ![c] = r.err]
                /\ pc' = [pc EXCEPT ![c] = "endRun"]
                /\ UNCHANGED <<lastProjects, repeated, latest>>
           ELSE /\ pc' = [pc EXCEPT ![c] = "ListTimeEntries"]
                /\ lastProjects' = projects[c]
                /\ repeated' = [repeated EXCEPT !.projects = (lastProjects = projects[c])]
                /\ latest' = [latest EXCEPT !.projects =
                                 Observed(@, projects[c], Len(projects[c]))]
                /\ UNCHANGED err
    /\ projects' = [projects EXCEPT ![c] = <<>>]
    /\ UNCHANGED <<source, ctlVars, migVars, timeVars, appVars, status, entries, entryTable, lastEntries>>

\* Mutant: a failed ListTimeEntries is taken for an empty list.
Run_ListTimeEntries_SwallowError(c) ==
    /\ pc[c] = "ListTimeEntries"
    /\ \E r \in ListTimeEntries :
        /\ calls' = [calls EXCEPT ![c] = Append(@, Call("ListTimeEntries", r.err = ErrNil, Len(r.list)))]
        /\ entries' = [entries EXCEPT ![c] = r.list]
        /\ pc' = [pc EXCEPT ![c] =
                    IF Len(r.list) = 0 THEN "endRun" ELSE "SyncEntries"]
    /\ UNCHANGED <<source, ctlVars, migVars, timeVars, appVars, err, status, projects, storeVars>>

\* Mutant: a failed ListTimeEntries is tried once more.
Run_ListTimeEntries_Retry(c) ==
    /\ pc[c] = "ListTimeEntries"
    /\ \E r \in ListTimeEntries :
        /\ calls' = [calls EXCEPT ![c] = Append(@, Call("ListTimeEntries", r.err = ErrNil, Len(r.list)))]
        /\ IF r.err # ErrNil
           THEN /\ err' = [err EXCEPT ![c] = r.err]
                /\ pc' = [pc EXCEPT ![c] =
                            IF calls[c][Len(calls[c])].op = "ListTimeEntries"
                            THEN "endRun" ELSE "ListTimeEntries"]
                /\ UNCHANGED entries
           ELSE /\ entries' = [entries EXCEPT ![c] = r.list]
                /\ pc' = [pc EXCEPT ![c] =
                            IF Len(r.list) = 0 THEN "endRun" ELSE "SyncEntries"]
                /\ err' = [err EXCEPT ![c] = ErrNil]
    /\ UNCHANGED <<source, ctlVars, migVars, timeVars, appVars, status, projects, storeVars>>

\* uc.Toggl.ListTimeEntries and the branches on its result.
Run_ListTimeEntries(c) ==
    /\ pc[c] = "ListTimeEntries"
    /\ \E r \in ListTimeEntries :
        /\ calls' = [calls EXCEPT ![c] = Append(@, Call("ListTimeEntries", r.err = ErrNil, Len(r.list)))]
        /\ IF r.err # ErrNil
           THEN /\ err' = [err EXCEPT ![c] = r.err]
                /\ pc' = [pc EXCEPT ![c] = "endRun"]
                /\ UNCHANGED entries
           ELSE /\ entries' = [entries EXCEPT ![c] = r.list]
                /\ pc' = [pc EXCEPT ![c] =
                            IF Len(r.list) = 0 THEN "endRun" ELSE "SyncEntries"]
                /\ UNCHANGED err
    /\ UNCHANGED <<source, ctlVars, migVars, timeVars, appVars, status, projects, storeVars>>

\* uc.Sink.SyncEntries and the return of Run.
Run_SyncEntries(c) ==
    /\ pc[c] = "SyncEntries"
    /\ \E fail \in FailPoints(Len(entries[c])), e \in SinkErrors :
        LET r == SyncEntries(entryTable, entries[c], fail, e) IN
        /\ entryTable' = r.table
        /\ calls' = [calls EXCEPT ![c] = Append(@, Call("SyncEntries", r.err = ErrNil, Len(entries[c])))]
        /\ err' = [err EXCEPT ![c] = r.err]
        /\ lastEntries' = IF r.err = ErrNil THEN entries[c] ELSE lastEntries
        /\ repeated' = IF r.err = ErrNil
                       THEN [repeated EXCEPT !.entries = (lastEntries = entries[c])]
                       ELSE repeated
        /\ latest' = IF r.err = ErrNil
                     THEN [latest EXCEPT !.entries =
                              Observed(@, entries[c], Len(entries[c]))]
                     ELSE latest
        /\ pc' = [pc EXCEPT ![c] = "endRun"]
    /\ entries' = [entries EXCEPT ![c] = <<>>]
    /\ UNCHANGED <<source, ctlVars, migVars, timeVars, appVars, status, projects, projectTable, lastProjects>>

\* ------------------------------------------------------------- main
\* The process exits with the given status.
Exits(code) ==
    /\ exit' = Ptr(code)
    /\ pc' = [pc EXCEPT ![Sched] = "exited"]
    /\ UNCHANGED <<window, next, prev>>

\* Mutant: the periodic mode waits for its first tick.
MainStart_WaitsForTick ==
    /\ pc[Sched] = "main"
    /\ LET toTime == parseEnd(flags.to, now)
           fromTime == parseStart(flags.from, toTime.t - Day)
       IN IF toTime.exit \/ fromTime.exit
          THEN Exits(1)
          ELSE \E newOK \in BOOLEAN :
                 IF ~newOK THEN Exits(1)
                 ELSE IF flags.once
                 THEN /\ window' = [window EXCEPT ![Sched] =
                                       [from |-> fromTime.t, to |-> toTime.t]]
                      /\ pc' = [pc EXCEPT ![Sched] = "tryBeginRun"]
                      /\ UNCHANGED mainVars
                 ELSE IF ~flags.daily
                 THEN /\ pc' = [pc EXCEPT ![Sched] = "idle"]
                      /\ UNCHANGED <<window, mainVars>>
                 ELSE IF ~loc.valid THEN Exits(1)
                 ELSE /\ pc' = [pc EXCEPT ![Sched] = "daily"]
                      /\ UNCHANGED <<window, mainVars>>
    /\ UNCHANGED <<source, ctlVars, migVars, now, envVars, query, probe, appVars, err, status,
                   runVars, storeVars>>

\* main up to its mode: the window of the flags (an invalid boundary exits
\* with status 1), App.New (a failure exits with status 1), then the call
\* of RunOnce of the run-once and of the periodic mode, or, in daily mode,
\* the location (an unknown one exits with status 1) and the daily loop.
MainStart ==
    /\ pc[Sched] = "main"
    /\ LET toTime == parseEnd(flags.to, now)
           fromTime == parseStart(flags.from, toTime.t - Day)
       IN IF toTime.exit \/ fromTime.exit
          THEN Exits(1)
          ELSE \E newOK \in BOOLEAN :
                 IF ~newOK THEN Exits(1)
                 ELSE IF flags.once \/ ~flags.daily
                 THEN /\ window' = [window EXCEPT ![Sched] =
                                       [from |-> fromTime.t, to |-> toTime.t]]
                      /\ pc' = [pc EXCEPT ![Sched] = "tryBeginRun"]
                      /\ UNCHANGED mainVars
                 ELSE IF ~loc.valid THEN Exits(1)
                 ELSE /\ pc' = [pc EXCEPT ![Sched] = "daily"]
                      /\ UNCHANGED <<window, mainVars>>
    /\ UNCHANGED <<source, ctlVars, migVars, now, envVars, query, probe, appVars, err, status,
                   runVars, storeVars>>

\* Mutant: run-once mode exits with status 0 whatever RunOnce returned.
OnceExit_AlwaysZero ==
    /\ pc[Sched] = "returned"
    /\ flags.once
    /\ exit' = Ptr(0)
    /\ pc' = [pc EXCEPT ![Sched] = "exited"]
    /\ UNCHANGED <<source, ctlVars, migVars, now, envVars, query, window, next, prev, probe,
                   appVars, err, status, runVars, storeVars>>

\* Run-once mode: RunOnce returned and the process exits, with status 1 if
\* it returned an error.
OnceExit ==
    /\ pc[Sched] = "returned"
    /\ flags.once
    /\ exit' = Ptr(IF err[Sched] # ErrNil THEN 1 ELSE 0)
    /\ pc' = [pc EXCEPT ![Sched] = "exited"]
    /\ UNCHANGED <<source, ctlVars, migVars, now, envVars, query, window, next, prev, probe,
                   appVars, err, status, runVars, storeVars>>

\* The daily loop: the next midnight of the local time is computed and the
\* loop sleeps until then.
DailyNext ==
    /\ pc[Sched] = "daily"
    /\ next' = nextMidnight(loc, now)
    /\ pc' = [pc EXCEPT ![Sched] = "sleep"]
    /\ UNCHANGED <<source, ctlVars, migVars, now, envVars, query, window, exit, prev, probe,
                   appVars, err, status, runVars, storeVars>>

\* Mutant: the daily window starts where the window before it ended.
DailyWake_SinceLastRun ==
    /\ pc[Sched] = "sleep"
    /\ now >= next
    /\ window' = [window EXCEPT ![Sched] =
                    [from |-> IF prev = NilPtr THEN next - Day ELSE prev[1],
                     to |-> next]]
    /\ prev' = Ptr(next)
    /\ pc' = [pc EXCEPT ![Sched] = "tryBeginRun"]
    /\ UNCHANGED <<source, ctlVars, migVars, now, envVars, query, exit, next, probe, appVars,
                   err, status, runVars, storeVars>>

\* The daily loop: the timer set for next fires and the loop calls RunOnce
\* for the 24 hours before next.
DailyWake ==
    /\ pc[Sched] = "sleep"
    /\ now >= next
    /\ LET endUTC == next
           startUTC == endUTC - Day
       IN window' = [window EXCEPT ![Sched] = [from |-> startUTC, to |-> endUTC]]
    /\ prev' = Ptr(next)
    /\ pc' = [pc EXCEPT ![Sched] = "tryBeginRun"]
    /\ UNCHANGED <<source, ctlVars, migVars, now, envVars, query, exit, next, probe, appVars,
                   err, status, runVars, storeVars>>

\* Mutant: a failed daily run ends the process.
DailyLog_Fatal ==
    /\ pc[Sched] = "returned"
    /\ flags.daily /\ ~flags.once
    /\ pc' = [pc EXCEPT ![Sched] = IF err[Sched] # ErrNil THEN "exited" ELSE "daily"]
    /\ exit' = IF err[Sched] # ErrNil THEN Ptr(1) ELSE exit
    /\ failed' = (err[Sched] # ErrNil)
    /\ err' = [err EXCEPT ![Sched] = ErrNil]
    /\ admitted' = [admitted EXCEPT ![Sched] = FALSE]
    /\ UNCHANGED <<source, cancelled, migVars, now, envVars, query, window, next,
                   prev, probe, running, status, runVars, storeVars>>

\* The daily loop: RunOnce returned, the outcome is logged and the loop
\* starts over.
DailyLog ==
    /\ pc[Sched] = "returned"
    /\ flags.daily /\ ~flags.once
    /\ pc' = [pc EXCEPT ![Sched] = "daily"]
    /\ failed' = (err[Sched] # ErrNil)
    /\ err' = [err EXCEPT ![Sched] = ErrNil]
    /\ admitted' = [admitted EXCEPT ![Sched] = FALSE]
    /\ UNCHANGED <<source, cancelled, migVars, timeVars, running, status, runVars,
                   storeVars>>

\* The hours the clock is followed after the start of the process.
Horizon == 66

\* An hour passes. A timer that is due fires before the hour is over.
ClockTick ==
    /\ now < boot + Horizon
    /\ ~(pc[Sched] = "sleep" /\ now >= next)
    /\ now' = now + 1
    /\ UNCHANGED <<source, ctlVars, migVars, pc, envVars, query, window, mainVars, probe,
                   appVars, err, status, runVars, storeVars>>

\* ------------------------------------------------------------- start-up
\* The number of times the process is started against the same database.
MaxStarts == 2

\* The number of statements of the script in the file name.
StmtsOf(name) == (CHOOSE s \in scripts : s.name = name).stmts

\* main: the window of the flags is resolved (an invalid boundary exits with
\* status 1) and App.New is called, which calls migrate.Run.
MainNew ==
    /\ pc[Sched] = "main"
    /\ LET toTime == parseEnd(flags.to, now)
           fromTime == parseStart(flags.from, toTime.t - Day)
       IN IF toTime.exit \/ fromTime.exit
          THEN Exits(1)
          ELSE /\ pc' = [pc EXCEPT ![Sched] = "migrate"]
               /\ UNCHANGED <<window, mainVars>>
    /\ UNCHANGED <<source, ctlVars, migVars, now, envVars, query, probe, appVars, err,
                   status, runVars, storeVars>>

\* migrate.Run before its loop: the database is opened and pinged, the
\* ledger table ensured, the files listed and sorted and the ledger loaded;
\* any of these may fail, and Run returns the error.
Migrate_Begin ==
    /\ pc[Sched] = "migrate"
    /\ \E ok \in BOOLEAN :
         IF ok
         THEN /\ mig' = [Mig(SortStrings({ s.name : s \in scripts }), 1, ledger, ErrNil)
                            EXCEPT !.after = mig.after]
              /\ pc' = [pc EXCEPT ![Sched] = "migrateLoop"]
         ELSE /\ mig' = [mig EXCEPT !.err = "dial tcp: connection refused",
                                     !.done = TRUE]
              /\ pc' = [pc EXCEPT ![Sched] = "New"]
    /\ UNCHANGED <<source, ctlVars, scripts, dbVars, starts, timeVars, appVars, err,
                   status, runVars, storeVars>>

\* One iteration of the loop of migrate.Run over the sorted files: the
\* version is parsed (an invalid name ends the run); a version that was in
\* the ledger when it was loaded is skipped; otherwise the file is read
\* (a failure ends the run) and given whole to ExecContext, whose statements take effect one after the other
\* until one fails (k of them succeed), and after a successful batch
\* recordApplied inserts the version, which fails if the connection does or
\* if the ledger holds the version already. Any failure ends the run.
Migrate_File ==
    /\ pc[Sched] = "migrateLoop"
    /\ mig.i <= Len(mig.files)
    /\ LET f == mig.files[mig.i]
           ver == parseVersion(f)
           fails(e) == /\ mig' = [mig EXCEPT !.err = e, !.done = TRUE]
                       /\ pc' = [pc EXCEPT ![Sched] = "New"]
           ran(e) == /\ mig' = [mig EXCEPT !.err = e, !.done = TRUE,
                                            !.ran = Append(@, f)]
                     /\ pc' = [pc EXCEPT ![Sched] = "New"]
       IN IF ~ver.ok
          THEN /\ fails("invalid migration filename")
               /\ UNCHANGED dbVars
          ELSE IF ver.v \in mig.applied
          THEN /\ mig' = [mig EXCEPT !.i = @ + 1]
               /\ UNCHANGED <<pc, dbVars>>
          ELSE \E read \in BOOLEAN, k \in 0..StmtsOf(f), recorded \in BOOLEAN :
                 /\ execLog' = IF read THEN Append(execLog, f) ELSE execLog
                 /\ schema' = IF read THEN schema \cup Effects(f, k) ELSE schema
                 /\ IF ~read
                    THEN /\ fails("open: file does not exist")
                         /\ ledger' = ledger
                    ELSE IF k < StmtsOf(f)
                    THEN /\ ran("applying: Error 1064")
                         /\ ledger' = ledger
                    ELSE IF ver.v \in Range(ledger)
                    THEN /\ ran("Error 1062: Duplicate entry")
                         /\ ledger' = ledger
                    ELSE IF ~recorded
                    THEN /\ ran("dial tcp: connection refused")
                         /\ ledger' = ledger
                    ELSE /\ ledger' = Append(ledger, ver.v)
                         /\ mig' = [mig EXCEPT !.ran = Append(@, f), !.i = @ + 1]
                         /\ pc' = pc
    /\ UNCHANGED <<source, ctlVars, scripts, starts, timeVars, appVars, err,
                   status, runVars, storeVars>>

\* The loop of migrate.Run is over: Run returns nil.
Migrate_Return ==
    /\ pc[Sched] = "migrateLoop"
    /\ mig.i > Len(mig.files)
    /\ mig' = [mig EXCEPT !.done = TRUE]
    /\ pc' = [pc EXCEPT ![Sched] = "New"]
    /\ UNCHANGED <<source, ctlVars, scripts, dbVars, starts, timeVars, appVars, err,
                   status, runVars, storeVars>>

\* main after App.New: the window of the flags and the call of RunOnce of
\* the run-once and of the periodic mode, or, in daily mode, the location
\* (an unknown one exits with status 1) and the daily loop.
Mode ==
    LET toTime == parseEnd(flags.to, boot)
        fromTime == parseStart(flags.from, toTime.t - Day)
    IN IF flags.once \/ ~flags.daily
       THEN /\ window' = [window EXCEPT ![Sched] =
                             [from |-> fromTime.t, to |-> toTime.t]]
            /\ pc' = [pc EXCEPT ![Sched] = "tryBeginRun"]
            /\ UNCHANGED mainVars
       ELSE IF ~loc.valid THEN Exits(1)
       ELSE /\ pc' = [pc EXCEPT ![Sched] = "daily"]
            /\ UNCHANGED <<window, mainVars>>

\* Mutant: main goes on to its mode whatever App.New returned.
MainMode_IgnoreError ==
    /\ pc[Sched] = "New"
    /\ Mode
    /\ UNCHANGED <<source, ctlVars, migVars, now, envVars, query, probe, appVars, err,
                   status, runVars, storeVars>>

\* migrate.Run has returned to App.New: New returns its error, or builds
\* the database client (which may fail) and the App; main exits with
\* status 1 if New returned an error and goes on to its mode otherwise.
MainMode ==
    /\ pc[Sched] = "New"
    /\ IF mig.err # ErrNil
       THEN Exits(1)
       ELSE \E clientOK \in BOOLEAN : IF clientOK THEN Mode ELSE Exits(1)
    /\ UNCHANGED <<source, ctlVars, migVars, now, envVars, query, probe, appVars, err,
                   status, runVars, storeVars>>

\* The process has exited and is started again against the same database.
Restart ==
    /\ pc[Sched] = "exited"
    /\ starts < MaxStarts
    /\ starts' = starts + 1
    /\ mig' = [NoMig EXCEPT !.after = (mig.done /\ mig.err = ErrNil)]
    /\ pc' = [pc EXCEPT ![Sched] = "main"]
    /\ exit' = NilPtr
    /\ err' = [err EXCEPT ![Sched] = ErrNil]
    /\ admitted' = [admitted EXCEPT ![Sched] = FALSE]
    /\ window' = [window EXCEPT ![Sched] = NoWindow]
    /\ calls' = [calls EXCEPT ![Sched] = <<>>]
    /\ projects' = [projects EXCEPT ![Sched] = <<>>]
    /\ entries' = [entries EXCEPT ![Sched] = <<>>]
    /\ UNCHANGED <<source, ctlVars, scripts, dbVars, now, envVars, query, next, prev,
                   probe, running, status, storeVars>>

\* The shutdown signal arrives: main's context is cancelled.
Cancel ==
    /\ ~cancelled
    /\ pc[Sched] # "exited"
    /\ cancelled' = TRUE
    /\ UNCHANGED <<source, pc, failed, migVars, timeVars, appVars, err, status,
                   runVars, storeVars>>

\* The periodic loop: the select takes the cancelled context and main
\* returns.
Shutdown ==
    /\ pc[Sched] = "idle"
    /\ ~flags.once /\ ~flags.daily
    /\ cancelled
    /\ pc' = [pc EXCEPT ![Sched] = "exited"]
    /\ exit' = Ptr(0)
    /\ UNCHANGED <<source, ctlVars, migVars, now, envVars, query, window, next,
                   prev, probe, appVars, err, status, runVars, storeVars>>

\* The daily loop: the select takes the cancelled context and main returns.
DailyShutdown ==
    /\ pc[Sched] = "sleep"
    /\ cancelled
    /\ pc' = [pc EXCEPT ![Sched] = "exited"]
    /\ exit' = Ptr(0)
    /\ UNCHANGED <<source, ctlVars, migVars, now, envVars, query, window, next,
                   prev, probe, appVars, err, status, runVars, storeVars>>

\* ------------------------------------------------------------- parsers alone
\* A parser is applied to the token and the default of the probe.
Apply(fn, out) ==
    /\ probe.fn = "none"
    /\ probe' = [probe EXCEPT !.fn = fn, !.out = out]
    /\ UNCHANGED <<source, ctlVars, migVars, pc, now, envVars, query, window, mainVars, appVars,
                   err, status, runVars, storeVars>>

Apply_parseStart == Apply("parseStart", parseStart(probe.val, probe.def))

Apply_parseEnd == Apply("parseEnd", parseEnd(probe.val, probe.def))

Apply_parseStartHTTP ==
    Apply("parseStartHTTP", Parsed(parseStartHTTP(probe.val, probe.def)))

Apply_parseEndHTTP ==
    Apply("parseEndHTTP", Parsed(parseEndHTTP(probe.val, probe.def)))

\* ------------------------------------------------------------- specifications
\* The scheduling loop and the trigger requests, all calling RunOnce.
Next ==
    \/ \E c \in Requests : HandleSync(c)
    \/ \E c \in Requests : WriteResponse(c)
    \/ Tick
    \/ LoopLog
    \/ \E c \in Callers : tryBeginRun(c)
    \/ \E c \in Callers : RunOnceRejected(c)
    \/ \E c \in Callers : endRun(c)
    \/ \E c \in Callers : Run_ListProjects(c)
    \/ \E c \in Callers : Run_SyncProjects(c)
    \/ \E c \in Callers : Run_ListTimeEntries(c)
    \/ \E c \in Callers : Run_SyncEntries(c)

Spec == Init /\ [][Next]_vars

\* The scheduling loop alone, against a source with several records.
NextSync ==
    \/ Tick
    \/ LoopLog
    \/ tryBeginRun(Sched)
    \/ endRun(Sched)
    \/ Run_ListProjects(Sched)
    \/ Run_SyncProjects(Sched)
    \/ Run_ListTimeEntries(Sched)
    \/ Run_SyncEntries(Sched)

SpecSync == InitSync /\ [][NextSync]_vars

\* A source that holds nothing.
EmptySource == [projects |-> {}, entries |-> {}]

\* The boundary tokens tried on the command line and at /sync: none, two
\* dates, an instant with an offset, a date that is no day of the calendar
\* and a word.
WindowTokens ==
    { EmptyToken,
      DateToken(2025, 7, 31),
      DateToken(2025, 8, 20),
      RFC3339Token(2025, 7, 31, 22, 2),
      DateToken(2025, 2, 30),
      OtherToken }

\* The process starts in run-once or periodic mode with any two of the
\* tokens as --from and --to.
InitWindow ==
    /\ InitApp
    /\ Migrated
    /\ pc = [c \in Callers |-> IF c = Sched THEN "main" ELSE "idle"]
    /\ source = EmptySource
    /\ now = TestNow
    /\ boot = TestNow
    /\ loc = UTCLocation
    /\ tokens = WindowTokens
    /\ flags \in { Flags(once, FALSE, from, to) :
                      once \in BOOLEAN, from \in WindowTokens, to \in WindowTokens }
    /\ probe = NoProbe

\* main in run-once or periodic mode and one client of /sync.
NextWindow ==
    \/ MainStart
    \/ OnceExit
    \/ Tick
    \/ LoopLog
    \/ HandleSync("h1")
    \/ WriteResponse("h1")
    \/ \E c \in {Sched, "h1"} : tryBeginRun(c)
    \/ \E c \in {Sched, "h1"} : RunOnceRejected(c)
    \/ \E c \in {Sched, "h1"} : endRun(c)
    \/ \E c \in {Sched, "h1"} : Run_ListProjects(c)
    \/ \E c \in {Sched, "h1"} : Run_ListTimeEntries(c)

SpecWindow == InitWindow /\ [][NextWindow]_vars

\* The locations tried and, for each, the instants the process starts at:
\* the days before the offset of Europe/Berlin changes, and an ordinary day.
DailyStarts ==
    { [loc |-> UTCLocation, at |-> TestNow],
      [loc |-> Berlin, at |-> DateUTC(2025, 3, 29) + 9],
      [loc |-> Berlin, at |-> DateUTC(2025, 10, 25) + 9],
      [loc |-> UnknownLocation, at |-> TestNow] }

\* The process starts in daily mode.
InitDaily ==
    /\ InitApp
    /\ Migrated
    /\ pc = [c \in Callers |-> IF c = Sched THEN "main" ELSE "idle"]
    /\ source = EmptySource
    /\ \E s \in DailyStarts :
        /\ now = s.at
        /\ boot = s.at
        /\ loc = s.loc
    /\ tokens = {EmptyToken}
    /\ flags = Flags(FALSE, TRUE, EmptyToken, EmptyToken)
    /\ probe = NoProbe

\* main in daily mode, and the clock.
NextDaily ==
    \/ MainStart
    \/ DailyNext
    \/ DailyWake
    \/ DailyLog
    \/ ClockTick
    \/ tryBeginRun(Sched)
    \/ endRun(Sched)
    \/ Run_ListProjects(Sched)
    \/ Run_ListTimeEntries(Sched)

SpecDaily == InitDaily /\ [][NextDaily]_vars

\* The process starts in periodic or in daily mode, in UTC or in
\* Europe/Berlin, and the shutdown signal may arrive.
InitLoops ==
    /\ InitApp
    /\ Migrated
    /\ pc = [c \in Callers |-> IF c = Sched THEN "main" ELSE "idle"]
    /\ source = EmptySource
    /\ \E s \in DailyStarts :
        /\ s.loc.valid
        /\ now = s.at
        /\ boot = s.at
        /\ loc = s.loc
    /\ tokens = {EmptyToken}
    /\ flags \in { Flags(FALSE, daily, EmptyToken, EmptyToken) : daily \in BOOLEAN }
    /\ probe = NoProbe

\* main in periodic or daily mode, the clock and the shutdown signal.
NextLoops ==
    \/ MainStart
    \/ Tick
    \/ LoopLog
    \/ Shutdown
    \/ DailyNext
    \/ DailyWake
    \/ DailyLog
    \/ DailyShutdown
    \/ ClockTick
    \/ Cancel
    \/ tryBeginRun(Sched)
    \/ endRun(Sched)
    \/ Run_ListProjects(Sched)
    \/ Run_ListTimeEntries(Sched)

SpecLoops == InitLoops /\ [][NextLoops]_vars

\* The ledgers the process is first started against: empty, or holding
\* version 1 with the effects of the scripts of that version.
InitMigrate ==
    /\ InitApp
    /\ pc = [c \in Callers |-> IF c = Sched THEN "main" ELSE "idle"]
    /\ source = EmptySource
    /\ now = TestNow
    /\ boot = TestNow
    /\ loc = UTCLocation
    /\ tokens = {EmptyToken}
    /\ flags = Flags(TRUE, FALSE, EmptyToken, EmptyToken)
    /\ probe = NoProbe
    /\ scripts \in ScriptSets
    /\ ledger \in {<<>>, <<1>>}
    /\ schema = UNION { Effects(s.name, s.stmts) :
                          s \in { t \in scripts : /\ parseVersion(t.name).ok
                                                   /\ parseVersion(t.name).v \in Range(ledger) } }
    /\ execLog = <<>>
    /\ mig = NoMig

\* The start-up of the process with the migrator, the run of the run-once
\* mode, and the next start.
NextMigrate ==
    \/ MainNew
    \/ Migrate_Begin
    \/ Migrate_File
    \/ Migrate_Return
    \/ MainMode
    \/ Restart
    \/ OnceExit
    \/ tryBeginRun(Sched)
    \/ endRun(Sched)
    \/ Run_ListProjects(Sched)
    \/ Run_ListTimeEntries(Sched)

SpecMigrate == InitMigrate /\ [][NextMigrate]_vars

\* The written dates tried: every month and day number of the years, among
\* them days the calendar does not have.
ProbeTokens ==
    { DateToken(y, m, d) : y \in Years, m \in 1..12, d \in 1..31 }

\* Each parser applied to each written date.
InitDates ==
    /\ InitApp
    /\ Migrated
    /\ pc = [c \in Callers |-> "idle"]
    /\ source = EmptySource
    /\ now = TestNow
    /\ boot = TestNow
    /\ loc = UTCLocation
    /\ tokens = {EmptyToken}
    /\ flags = Flags(FALSE, FALSE, EmptyToken, EmptyToken)
    /\ probe \in { Probe(val, TestNow) : val \in ProbeTokens }

NextDates ==
    \/ Apply_parseStart
    \/ Apply_parseEnd
    \/ Apply_parseStartHTTP
    \/ Apply_parseEndHTTP

SpecDates == InitDates /\ [][NextDates]_vars

\* One client of /sync that sends its next request after the response to
\* the one before; no scheduling loop calls RunOnce.
NextClient ==
    \/ HandleSync("h1")
    \/ WriteResponse("h1")
    \/ tryBeginRun("h1")
    \/ endRun("h1")
    \/ Run_ListProjects("h1")
    \/ Run_SyncProjects("h1")
    \/ Run_ListTimeEntries("h1")
    \/ Run_SyncEntries("h1")

SpecClient == Init /\ [][NextClient]_vars

\* The tokens given to both families of parsers: the empty one, one that
\* is neither an instant nor a date, and instants and dates written with
\* the ends of February and of the year, hours from 0 to 24 and offsets
\* east and west of UTC, some of which name no day or hour.
ParserTokens ==
    {EmptyToken, OtherToken}
        \cup { RFC3339Token(y, m, d, h, off) :
                 y \in Years, m \in {2, 12}, d \in {28, 29, 30, 31},
                 h \in {0, 23, 24}, off \in {-2, 0, 2} }
        \cup { DateToken(y, m, d) : y \in Years, m \in {2, 12}, d \in {28, 29, 30, 31} }

\* The defaults given to the parsers: now, now - 24h and an earlier instant.
ParserDefaults == {TestNow, TestNow - Day, DateUTC(2024, 2, 29)}

\* Each parser applied to each token with each default.
InitParsers ==
    /\ InitApp
    /\ Migrated
    /\ pc = [c \in Callers |-> "idle"]
    /\ source = EmptySource
    /\ now = TestNow
    /\ boot = TestNow
    /\ loc = UTCLocation
    /\ tokens = {EmptyToken}
    /\ flags = Flags(FALSE, FALSE, EmptyToken, EmptyToken)
    /\ probe \in { Probe(val, def) : val \in ParserTokens, def \in ParserDefaults }

SpecParsers == InitParsers /\ [][NextDates]_vars

\* ------------------------------------------------------------- properties
Last(s) == s[Len(s)]

\* The positions of uc.Run.
RunPhases == {"ListProjects", "SyncProjects", "ListTimeEntries", "SyncEntries"}

\* uc.Run is executing for caller c.
InRun(c) == pc[c] \in RunPhases

\* Caller c has passed tryBeginRun and not yet executed endRun.
Holding(c) == pc[c] \in RunPhases \cup {"endRun"}

IsSink(call) == call.op \in {"SyncProjects", "SyncEntries"}

\* The tables hold the same rows in both states of a step.
TablesUnchanged == entryTable' = entryTable /\ projectTable' = projectTable

\* Every record of the batch is in the table: for each id of the batch the
\* table has exactly one row, the row of the batch's last record with that id.
Persisted(rows, table) ==
    \A i \in DOMAIN rows :
        LET j == CHOOSE k \in DOMAIN rows :
                    /\ rows[k].id = rows[i].id
                    /\ \A m \in DOMAIN rows : rows[m].id = rows[i].id => m <= k
        IN /\ \E n \in DOMAIN table : table[n] = rows[j]
           /\ Cardinality({n \in DOMAIN table : table[n].id = rows[i].id}) = 1

ProjectRows(ps) == [i \in DOMAIN ps |-> ProjectRow(ps[i])]

EntryRows(es) == [i \in DOMAIN es |-> EntryRow(es[i])]

TypeOK ==
    /\ running \in {0, 1}
    /\ pc \in [Callers -> {"idle", "tryBeginRun", "rejected", "endRun",
                           "returned", "responded"} \cup RunPhases]
    /\ \A c \in Callers : Len(calls[c]) <= 4

\* C1: under any interleaving of the scheduling loop and the trigger
\* requests, at most one caller is between a successful tryBeginRun and its
\* endRun, so at most one execution of SyncUseCase.Run started through
\* RunOnce is in progress, and the flag is set while it is.
C1_SingleFlight ==
    /\ Cardinality({c \in Callers : Holding(c)}) <= 1
    /\ \A c \in Callers : Holding(c) => running = 1

\* C1 witness: a run is in progress while another caller has just been
\* refused and a third is about to try.
C1_Witness ==
    \E c, d, e \in Callers :
        /\ c # d /\ d # e /\ c # e
        /\ InRun(c) /\ pc[d] = "rejected" /\ pc[e] = "tryBeginRun"

\* C2: a caller whose tryBeginRun executes while another caller's admitted
\* run is in progress is refused and returns "sync already running", the
\* admitted run stays the only one; a caller whose tryBeginRun executes while
\* no run is in progress is admitted.
C2_ExactlyOneAdmitted ==
    [][\A c \in Callers :
        /\ (pc[c] = "tryBeginRun" /\ pc'[c] # "tryBeginRun"
              /\ \E d \in Callers \ {c} : Holding(d))
            => /\ pc'[c] = "rejected"
               /\ ~admitted'[c]
               /\ \A d \in Callers \ {c} : pc'[d] = pc[d] /\ admitted'[d] = admitted[d]
        /\ (pc[c] = "tryBeginRun" /\ pc'[c] # "tryBeginRun"
              /\ ~\E d \in Callers \ {c} : Holding(d))
            => pc'[c] = "ListProjects" /\ admitted'[c]
        /\ (pc[c] = "rejected" /\ pc'[c] # "rejected")
            => pc'[c] = "returned" /\ err'[c] = ErrAlreadyRunning
      ]_vars

\* C2 witness: one caller runs the sync while the other has returned the
\* "sync already running" error.
C2_Witness ==
    \E c, d \in Callers :
        /\ c # d
        /\ InRun(c) /\ admitted[c]
        /\ pc[d] = "returned" /\ ~admitted[d] /\ err[d] = ErrAlreadyRunning

\* C3: a RunOnce refused by tryBeginRun makes no source call and no sink
\* call and never changes the running flag, in the step that refuses it and
\* in its return, and it never enters Run.
C3_RejectedIsInert ==
    [][\A c \in Callers :
        (pc'[c] # pc[c] /\ (pc'[c] = "rejected" \/ pc[c] = "rejected"))
            => /\ running' = running
               /\ calls' = calls
               /\ calls[c] = <<>>
               /\ TablesUnchanged
               /\ pc'[c] \in {"rejected", "returned"}
      ]_vars

\* C3 witness: a refused caller has returned and the flag is still set for
\* the run that was admitted before it.
C3_Witness ==
    \E c, d \in Callers :
        /\ c # d
        /\ pc[d] = "returned" /\ err[d] = ErrAlreadyRunning
        /\ pc[c] = "SyncEntries" /\ running = 1

\* C4: every admitted RunOnce returns with the running flag cleared, whether
\* Run succeeded or failed at the source or at the sink, so that a
\* tryBeginRun executed when no admitted run is in progress is admitted.
C4_GuardReleased ==
    [][\A c \in Callers :
        /\ (Holding(c) /\ pc'[c] \notin RunPhases \cup {"endRun"})
            => pc'[c] = "returned" /\ running' = 0 /\ err'[c] = err[c]
        /\ (pc[c] = "tryBeginRun" /\ pc'[c] # "tryBeginRun"
              /\ ~\E d \in Callers : Holding(d))
            => pc'[c] = "ListProjects"
      ]_vars

\* C4 witness: an admitted run has returned a sink error, the flag is
\* cleared, and another caller is about to try.
C4_Witness ==
    \E c, d \in Callers :
        /\ c # d
        /\ pc[c] = "returned" /\ admitted[c] /\ err[c] \in SinkErrors
        /\ running = 0
        /\ pc[d] = "tryBeginRun"

\* C5: the status written to a GET or POST /sync request is 409 exactly when
\* its RunOnce was refused because a run was in progress, 500 exactly when
\* its admitted run returned an error, 200 exactly when its admitted run
\* succeeded.
C5_StatusOfOutcome ==
    [][\A c \in Requests :
        (pc[c] = "returned" /\ pc'[c] = "responded")
            => /\ status'[c] = StatusConflict <=> ~admitted[c]
               /\ status'[c] = StatusInternalServerError
                    <=> (admitted[c] /\ err[c] # ErrNil)
               /\ status'[c] = StatusOK <=> (admitted[c] /\ err[c] = ErrNil)
      ]_vars

\* C5 witness: one request was answered 409 and the other 500.
C5_Witness ==
    \E c, d \in Requests :
        /\ pc[c] = "responded" /\ status[c] = StatusConflict
        /\ pc[d] = "responded" /\ status[d] = StatusInternalServerError

\* C6: when ListProjects fails, Run returns that failure: the failing call
\* is the only collaborator call of the run, and neither table changes from
\* the call to the return of RunOnce.
C6_ListProjectsFailure ==
    [][\A c \in Callers :
        /\ (pc[c] = "ListProjects" /\ pc'[c] # "ListProjects" /\ ~Last(calls'[c]).ok)
            => /\ calls[c] = <<>>
               /\ calls'[c] = <<Call("ListProjects", FALSE, 0)>>
               /\ pc'[c] = "endRun"
               /\ err'[c] \in SourceErrors
               /\ TablesUnchanged
        /\ (pc[c] = "endRun" /\ pc'[c] # "endRun"
              /\ Last(calls[c]) = Call("ListProjects", FALSE, 0))
            => /\ pc'[c] = "returned"
               /\ err'[c] = err[c]
               /\ TablesUnchanged
      ]_vars

\* C6 witness: a run over a store that already has rows ends after a failed
\* ListProjects.
C6_Witness ==
    \E c \in Callers :
        /\ pc[c] = "endRun"
        /\ calls[c] = <<Call("ListProjects", FALSE, 0)>>
        /\ err[c] \in SourceErrors
        /\ entryTable # <<>> /\ projectTable # <<>>

\* C7: when ListTimeEntries fails, Run returns that failure without a
\* SyncEntries call, and the projects persisted earlier in the run are still
\* in the projects table when RunOnce returns.
C7_ListTimeEntriesFailure ==
    [][\A c \in Callers :
        /\ (pc[c] = "ListTimeEntries" /\ pc'[c] # "ListTimeEntries"
              /\ ~Last(calls'[c]).ok)
            => /\ pc'[c] = "endRun"
               /\ err'[c] \in SourceErrors
               /\ TablesUnchanged
        /\ (pc[c] = "endRun" /\ pc'[c] # "endRun"
              /\ Last(calls[c]) = Call("ListTimeEntries", FALSE, 0))
            => /\ pc'[c] = "returned"
               /\ err'[c] = err[c] /\ err[c] \in SourceErrors
               /\ \A i \in DOMAIN calls[c] : calls[c][i].op # "SyncEntries"
               /\ TablesUnchanged
               /\ (\E i \in DOMAIN calls[c] : calls[c][i].op = "SyncProjects")
                    => Persisted(ProjectRows(lastProjects), projectTable')
      ]_vars

\* C7 witness: a run that persisted projects ends after a failed
\* ListTimeEntries.
C7_Witness ==
    \E c \in Callers, n \in 1..MaxBatch :
        /\ pc[c] = "endRun"
        /\ calls[c] = <<Call("ListProjects", TRUE, n), Call("SyncProjects", TRUE, n),
                        Call("ListTimeEntries", FALSE, 0)>>
        /\ Len(lastProjects) = n

\* C8: Run makes no SyncProjects call after an empty project list and no
\* SyncEntries call after an empty entry list, no sink call is made with an
\* empty list, and a run whose two fetches succeed with empty lists returns
\* success having made no sink call.
C8_EmptyListsAreNoOps ==
    \A c \in Callers :
        LET cs == calls[c] IN
        /\ \A i \in DOMAIN cs : IsSink(cs[i]) => cs[i].n > 0
        /\ (\E i \in DOMAIN cs : cs[i] = Call("ListProjects", TRUE, 0))
            => \A j \in DOMAIN cs : cs[j].op # "SyncProjects"
        /\ (\E i \in DOMAIN cs : cs[i] = Call("ListTimeEntries", TRUE, 0))
            => \A j \in DOMAIN cs : cs[j].op # "SyncEntries"
        /\ (/\ \E i \in DOMAIN cs : cs[i] = Call("ListProjects", TRUE, 0)
            /\ \E i \in DOMAIN cs : cs[i] = Call("ListTimeEntries", TRUE, 0))
            => /\ pc[c] = "endRun"
               /\ err[c] = ErrNil
               /\ \A j \in DOMAIN cs : ~IsSink(cs[j])

\* C8 witness: a run whose two fetches returned empty lists is returning
\* success.
C8_Witness ==
    \E c \in Callers :
        /\ pc[c] = "endRun"
        /\ calls[c] = <<Call("ListProjects", TRUE, 0), Call("ListTimeEntries", TRUE, 0)>>
        /\ err[c] = ErrNil

\* C9: a failed sink call is the last collaborator call of its run and the
\* run returns its error; a run that returns success has no failed sink
\* call.
C9_SinkFailureEndsRun ==
    \A c \in Callers :
        LET cs == calls[c] IN
        /\ \A i \in DOMAIN cs :
              (IsSink(cs[i]) /\ ~cs[i].ok)
                => i = Len(cs) /\ pc[c] = "endRun" /\ err[c] \in SinkErrors
        /\ (pc[c] = "endRun" /\ err[c] = ErrNil)
            => \A i \in DOMAIN cs : IsSink(cs[i]) => cs[i].ok

\* C9 witness: a run ends on a failed SyncProjects.
C9_Witness ==
    \E c \in Callers :
        /\ pc[c] = "endRun"
        /\ Len(calls[c]) = 2
        /\ calls[c][2].op = "SyncProjects" /\ ~calls[c][2].ok
        /\ err[c] \in SinkErrors

\* C10: a successful SyncEntries (SyncProjects) given the same batch as the
\* successful call before it leaves the table exactly as it was, and after
\* any successful call the table has one row per distinct id of the batch,
\* with the values of the batch.
C10_Idempotent ==
    [][\A c \in Callers :
        /\ (pc[c] = "SyncEntries" /\ pc'[c] = "endRun" /\ err'[c] = ErrNil)
            => /\ entries[c] = lastEntries => entryTable' = entryTable
               /\ Persisted(EntryRows(entries[c]), entryTable')
        /\ (pc[c] = "SyncProjects" /\ pc'[c] = "ListTimeEntries")
            => /\ projects[c] = lastProjects => projectTable' = projectTable
               /\ Persisted(ProjectRows(projects[c]), projectTable')
      ]_vars

\* C10 witness: the same two-id batch of entries and the same batch of
\* projects have each been synced twice in a row.
C10_Witness ==
    /\ repeated.entries
    /\ Cardinality({lastEntries[i].ID : i \in DOMAIN lastEntries}) = 2
    /\ Len(entryTable) = 2
    /\ repeated.projects

\* The rows of a table with a given id.
RowsOf(table, id) == { i \in DOMAIN table : table[i].id = id }

\* A table holds, for every id of the history and for no other, one row with
\* the values of the record most recently persisted under that id.
HoldsLatest(table, seen, Row(_)) ==
    /\ \A id \in DOMAIN seen :
        \E i \in DOMAIN table :
            /\ RowsOf(table, id) = {i}
            /\ table[i] = Row(seen[id].rec)
    /\ \A i \in DOMAIN table : table[i].id \in DOMAIN seen

\* C11: after any sequence of syncs, the row stored for an id holds exactly
\* the field values of the record most recently persisted with that id, and
\* there is one row for that id.
C11_RowIsLatestVersion ==
    /\ HoldsLatest(entryTable, latest.entries, EntryRow)
    /\ HoldsLatest(projectTable, latest.projects, ProjectRow)

\* A stored entry whose last persisted version replaced a different one.
C11_Witness ==
    \E id \in DOMAIN latest.entries :
        /\ latest.entries[id].replaced
        /\ \E i \in DOMAIN entryTable :
            entryTable[i] = EntryRow(latest.entries[id].rec)

\* A step is a sink call of the given operation made by the loop.
SinkStep(op) ==
    /\ pc[Sched] = op
    /\ pc'[Sched] # op

\* C12: a SyncEntries / SyncProjects call is all or nothing: when it returns
\* an error the table is as it was before the call, whichever record or
\* step failed, and when it returns nil every record of the batch is stored.
C12_AllOrNothing ==
    [][/\ SinkStep("SyncEntries") =>
            IF Last(calls'[Sched]).ok
            THEN Persisted(EntryRows(entries[Sched]), entryTable')
            ELSE entryTable' = entryTable
       /\ SinkStep("SyncProjects") =>
            IF Last(calls'[Sched]).ok
            THEN Persisted(ProjectRows(projects[Sched]), projectTable')
            ELSE projectTable' = projectTable]_vars

\* A SyncEntries call on a batch of two records has failed and the table
\* holds neither of them.
C12_Witness ==
    /\ pc[Sched] = "endRun"
    /\ Last(calls[Sched]) = Call("SyncEntries", FALSE, 2)
    /\ entryTable = <<>>

RECURSIVE DaysBeforeYear(_)
\* The days of the years from 1970 up to, not including, y.
DaysBeforeYear(y) ==
    IF y <= 1970 THEN 0
    ELSE DaysBeforeYear(y - 1) + (IF IsLeap(y - 1) THEN 366 ELSE 365)

RECURSIVE DaysBeforeMonth(_, _)
\* The days of the months of y before month m.
DaysBeforeMonth(y, m) ==
    IF m <= 1 THEN 0 ELSE DaysBeforeMonth(y, m - 1) + DaysIn(y, m - 1)

\* 00:00:00 UTC of the calendar date y-m-d, by counting the days.
MidnightUTC(y, m, d) ==
    (DaysBeforeYear(y) + DaysBeforeMonth(y, m) + d - 1) * Day

\* 00:00:00 UTC of the calendar day after y-m-d.
MidnightAfterUTC(y, m, d) ==
    IF d < DaysIn(y, m) THEN MidnightUTC(y, m, d + 1)
    ELSE IF m < 12 THEN MidnightUTC(y, m + 1, 1)
    ELSE MidnightUTC(y + 1, 1, 1)

\* C13: for every valid calendar date D, in the command-line and in the
\* trigger-endpoint parser, a date-only start token D resolves to 00:00:00
\* UTC of D and a date-only end token D to 00:00:00 UTC of the calendar day
\* after D, across month and year ends too.
C13_DateOnlyBoundaries ==
    LET v == probe.val IN
    (v.form = "date" /\ ValidDate(v.y, v.m, v.d)) =>
        /\ (probe.fn \in {"parseStart", "parseStartHTTP"}
                => probe.out = Parsed(MidnightUTC(v.y, v.m, v.d)))
        /\ (probe.fn \in {"parseEnd", "parseEndHTTP"}
                => probe.out = Parsed(MidnightAfterUTC(v.y, v.m, v.d)))

\* The end token 2024-12-31 has been parsed at the trigger endpoint, and the
\* result is the first midnight of 2025.
C13_Witness ==
    /\ probe.fn = "parseEndHTTP"
    /\ probe.val = DateToken(2024, 12, 31)
    /\ probe.out = Parsed(MidnightUTC(2025, 1, 1))

\* A token that is neither empty, nor an RFC 3339 instant, nor a date.
Malformed(val) ==
    val # EmptyToken /\ ~ParseRFC3339(val).ok /\ ~ParseDate(val).ok

\* A request is between the parsing of its query and its response.
InFlight(c) == pc[c] \notin {"idle", "responded"}

\* C14: with a malformed --from or --to the process exits with status 1 and
\* never starts a sync run; a malformed from or to parameter of /sync is
\* replaced by its default (now for to, to - 24h for from) and the request
\* goes on to call RunOnce.
C14_MalformedBoundary ==
    /\ []((Malformed(flags.from) \/ Malformed(flags.to)) =>
            (/\ pc[Sched] \in {"main", "exited"}
             /\ (pc[Sched] = "exited" => exit = Ptr(1))
             /\ calls[Sched] = <<>> /\ ~admitted[Sched]))
    /\ [](\A c \in Requests : InFlight(c) =>
            (/\ (Malformed(query[c].to) => window[c].to = now)
             /\ (Malformed(query[c].from) => window[c].from = window[c].to - Day)))
    /\ [][\A c \in Requests :
            (query'[c] # query[c] /\
                (Malformed(query'[c].from) \/ Malformed(query'[c].to)))
            => pc'[c] = "tryBeginRun"]_vars

\* The process has exited with status 1 on a malformed --from, and a
\* request with a malformed to parameter is running its sync up to now.
C14_Witness ==
    /\ exit = Ptr(1)
    /\ Malformed(flags.from)
    /\ Malformed(query["h1"].to)
    /\ pc["h1"] = "ListTimeEntries"
    /\ window["h1"].to = now

\* C15: every window handed to SyncUseCase.Run satisfies from < to.
C15_WindowOrdered ==
    \A c \in Callers : InRun(c) => window[c].from < window[c].to

\* C16: a missing start boundary resolves to now - 24h and a missing end
\* boundary to now, whether or not the other boundary was supplied, on the
\* command line and at the trigger endpoint.
C16_MissingBoundaryDefaults ==
    /\ (flags.once /\ InRun(Sched)) =>
        (/\ (flags.from = EmptyToken => window[Sched].from = now - Day)
         /\ (flags.to = EmptyToken => window[Sched].to = now))
    /\ \A c \in Requests : InRun(c) =>
        (/\ (query[c].from = EmptyToken => window[c].from = now - Day)
         /\ (query[c].to = EmptyToken => window[c].to = now))

\* The hour of the day of the local time at t.
LocalHour(l, t) == (t + Offset(l, t)) % Day

\* The daily loop computes the instant to sleep until.
ComputesNext == pc[Sched] = "daily" /\ pc'[Sched] = "sleep"

\* The daily loop wakes up.
WakesUp == pc[Sched] = "sleep" /\ pc'[Sched] # "sleep"

\* C17: nextMidnight(t) is strictly later than t, it is t + 24h when t is a
\* local midnight, and two consecutive daily runs never use the same
\* midnight.
C17_NextMidnightIsLater ==
    [][(ComputesNext =>
            (/\ next' > now
             /\ (LocalHour(loc, now) = 0 => next' = now + Day)))
       /\ ((WakesUp /\ prev # NilPtr) => next # prev[1])]_vars

\* C18: each wake-up of the daily loop calls RunOnce once, for the window
\* that ends at the instant the loop slept until and starts 24 hours before
\* it; RunOnce is called on a wake-up only.
C18_WakeUpRunsOnce ==
    /\ [][(WakesUp =>
                (/\ pc'[Sched] = "tryBeginRun"
                 /\ window'[Sched] = [from |-> next - Day, to |-> next]))
           /\ ((pc'[Sched] = "tryBeginRun" /\ pc[Sched] # "tryBeginRun")
                => WakesUp)]_vars
    /\ [](InRun(Sched) =>
            window[Sched] = [from |-> next - Day, to |-> next])

\* In Europe/Berlin the loop has woken up a second time and its run has the
\* 24 hours before the instant it slept until.
C18_Witness ==
    /\ loc = Berlin
    /\ pc[Sched] = "ListProjects"
    /\ prev # NilPtr /\ prev[1] = next
    /\ next > boot + Day
    /\ window[Sched] = [from |-> next - Day, to |-> next]

\* The last local midnight of l before t.
LocalMidnightBefore(l, t) ==
    CHOOSE m \in (t - 2 * Day)..(t - 1) :
        /\ LocalHour(l, m) = 0
        /\ \A k \in (m + 1)..(t - 1) : LocalHour(l, k) # 0

\* C19: in every location and on every day a daily run fires at 00:00 local
\* time and its window is the previous local calendar day.
C19_LocalMidnightAndDay ==
    [][WakesUp =>
        (/\ LocalHour(loc, now) = 0
         /\ window'[Sched] = [from |-> LocalMidnightBefore(loc, now), to |-> now])]_vars

\* C20: every local midnight after start-up triggers exactly one sync
\* attempt: the instant of a wake-up is the first local midnight after the
\* instant of the wake-up before it.
C20_EveryMidnightOnce ==
    [][(WakesUp /\ prev # NilPtr) =>
        (/\ LocalHour(loc, next) = 0
         /\ next > prev[1]
         /\ \A k \in (prev[1] + 1)..(next - 1) : LocalHour(loc, k) # 0)]_vars

\* The scheduling loop is at its waiting point.
Waiting == pc[Sched] \in {"idle", "daily", "sleep"}

\* C21: a failed run in periodic or daily mode does not end the scheduling
\* loop: the loop goes back to its waiting point, where the next tick or the
\* timer of the next midnight starts a new run, and only a cancelled context
\* ends the process.
C21_LoopSurvivesFailure ==
    /\ [][(pc[Sched] = "returned" /\ err[Sched] # ErrNil /\ pc'[Sched] # "returned")
            => (Waiting' /\ exit' = NilPtr)]_vars
    /\ []((failed /\ pc[Sched] = "exited") => cancelled)
    /\ []((failed /\ pc[Sched] = "idle") => ENABLED Tick)
    /\ []((failed /\ pc[Sched] = "sleep" /\ now >= next) => ENABLED DailyWake)

\* In daily mode a run is in progress after the run before it failed.
C21_Witness ==
    /\ flags.daily
    /\ failed
    /\ pc[Sched] = "ListTimeEntries"
    /\ ~cancelled

\* The scheduling loop calls RunOnce.
LoopStartsRun == Waiting /\ pc'[Sched] = "tryBeginRun"

\* C22: once the context is cancelled the scheduling loop of the periodic
\* and of the daily mode starts no further RunOnce.
C22_NoRunAfterCancel ==
    [][cancelled => ~LoopStartsRun]_vars

\* C23: in periodic mode every tick runs the sync on the 24 hours before the
\* instant of the tick, whatever time has passed since the run before, and
\* the run keeps that window.
C23_TickWindow ==
    [][/\ (pc[Sched] = "idle" /\ pc'[Sched] = "tryBeginRun")
            => window'[Sched] = [from |-> now - Day, to |-> now]
       /\ (Holding(Sched) /\ pc'[Sched] # "returned")
            => window'[Sched] = window[Sched]]_vars

\* A run of a tick taken more than a day after the start is in progress,
\* for the 24 hours before the tick.
C23_Witness ==
    /\ ~flags.once /\ ~flags.daily
    /\ pc[Sched] = "ListProjects"
    /\ window[Sched].to > boot + Day
    /\ window[Sched] = [from |-> window[Sched].to - Day, to |-> window[Sched].to]
    /\ now > window[Sched].to

\* The window of the flags, resolved at the start of the process.
WindowOfFlags ==
    LET toTime == parseEnd(flags.to, boot)
        fromTime == parseStart(flags.from, toTime.t - Day)
    IN [from |-> fromTime.t, to |-> toTime.t]

\* C24: in run-once mode main calls RunOnce once, from its mode dispatch
\* and with the window resolved from --from and --to; when that call
\* returns the process terminates, with a non-zero status if and only if
\* the call returned an error.
C24_RunOnceMode ==
    [][flags.once =>
        /\ ((pc'[Sched] = "tryBeginRun" /\ pc[Sched] # "tryBeginRun")
              => (pc[Sched] = "main" /\ window'[Sched] = WindowOfFlags))
        /\ (pc'[Sched] = "main" => pc[Sched] = "main")
        /\ (InRun(Sched) => window'[Sched] = window[Sched])
        /\ ((pc[Sched] = "returned" /\ pc'[Sched] # "returned")
              => (/\ pc'[Sched] = "exited"
                  /\ exit' # NilPtr
                  /\ (exit'[1] # 0) <=> (err[Sched] # ErrNil)))
        /\ (pc[Sched] = "exited" => (pc'[Sched] = "exited" /\ exit' = exit))]_vars

\* The one run of run-once mode failed at the source and the process
\* exited with status 1.
C24_Witness ==
    /\ flags.once
    /\ pc[Sched] = "exited"
    /\ window[Sched] = WindowOfFlags
    /\ err[Sched] \in SourceErrors
    /\ exit = Ptr(1)

\* migrate.Run has loaded the ledger and is in its loop or past it.
Loaded == mig.files # <<>>

\* The version of a file name.
VersionOf(name) == parseVersion(name).v

\* The versions of a list of file names, in its order.
VersionsOf(names) == [k \in DOMAIN names |-> VersionOf(names[k])]

\* The versions this run has added to the ledger, in insertion order.
Recorded == SubSeq(ledger, Len(mig.loaded) + 1, Len(ledger))

\* The list a is the start of the list b.
IsPrefix(a, b) == Len(a) <= Len(b) /\ a = SubSeq(b, 1, Len(a))

\* The prefixes of all the scripts have the same number of digits.
SameWidth ==
    \A a, b \in scripts : IndexUnderscore(a.name) = IndexUnderscore(b.name)

Absent ==
    { s.name : s \in { t \in scripts : VersionOf(t.name) \notin Range(mig.loaded) } }

\* C26: a run executes only scripts whose version is absent from the
\* ledger at its start; a run that returns nil has executed and recorded
\* all of them; and the run of a process started after a run that returned
\* nil executes no script and leaves the ledger as it was.
C26_ExactlyTheAbsent ==
    Loaded =>
        /\ Range(mig.ran) \subseteq Absent
        /\ (mig.done /\ mig.err = ErrNil) =>
              (/\ Range(mig.ran) = Absent
               /\ Recorded = VersionsOf(mig.ran))
        /\ mig.after => (mig.ran = <<>> /\ ledger = mig.loaded)

\* The run after a run that executed scripts and returned nil has returned
\* nil as well.
C26_Witness ==
    /\ mig.after
    /\ Loaded
    /\ mig.done
    /\ mig.err = ErrNil
    /\ execLog # <<>>
    /\ \E s \in scripts : VersionOf(s.name) \in Range(mig.loaded)

\* C27: over all the runs of the migrator no script is executed twice.
C27_ExecutedAtMostOnce ==
    \A j, k \in DOMAIN execLog : execLog[j] = execLog[k] => j = k

\* C28: once a step of migrate.Run has failed, that run executes and
\* records nothing more, main exits with status 1 and the process starts
\* no sync run.
C28_MigrationFailureIsFatal ==
    /\ [](mig.err # ErrNil =>
            (/\ pc[Sched] \in {"New", "exited"}
             /\ pc[Sched] = "exited" => exit = Ptr(1)
             /\ calls[Sched] = <<>>
             /\ running = 0))
    /\ [][mig.err # ErrNil => dbVars' = dbVars]_vars

\* The second script of a run failed and the process has exited.
C28_Witness ==
    /\ mig.err # ErrNil
    /\ Len(mig.ran) = 2
    /\ mig.i = 2
    /\ pc[Sched] = "exited"

\* C29: a script takes effect as a whole or not at all, and a version is
\* in the ledger only with all the effects of its scripts.
C29_ScriptAtomic ==
    \A s \in scripts :
        \/ Effects(s.name, s.stmts) \subseteq schema
        \/ Effects(s.name, s.stmts) \cap schema = {}

\* The place of a collaborator call in the order of Run.
OrderOf(op) ==
    CASE op = "ListProjects" -> 1
      [] op = "SyncProjects" -> 2
      [] op = "ListTimeEntries" -> 3
      [] op = "SyncEntries" -> 4

\* C30: the collaborator calls of one Run are made in the order
\* ListProjects, SyncProjects, ListTimeEntries, SyncEntries, each at most
\* once and one at a time, and no call follows a call that failed.
C30_CallOrder ==
    /\ [](\A c \in Callers :
            /\ \A j, k \in DOMAIN calls[c] :
                  j < k => (/\ OrderOf(calls[c][j].op) < OrderOf(calls[c][k].op)
                            /\ calls[c][j].ok)
            /\ (calls[c] # <<>> => calls[c][1].op = "ListProjects")
            /\ (\E k \in DOMAIN calls[c] : calls[c][k].op = "SyncEntries")
                  => (\E k \in DOMAIN calls[c] : calls[c][k].op = "ListTimeEntries"))
    /\ [][\A c \in Callers :
            (InRun(c) /\ calls'[c] # calls[c])
              => (/\ Len(calls'[c]) = Len(calls[c]) + 1
                  /\ SubSeq(calls'[c], 1, Len(calls[c])) = calls[c]
                  /\ calls'[c][Len(calls'[c])].op = pc[c])]_vars

\* A run has made all four calls.
C30_Witness ==
    \E c \in Callers :
        /\ pc[c] = "endRun"
        /\ Len(calls[c]) = 4
        /\ calls[c][4].op = "SyncEntries"

\* A column holds the value an optional field points to, or NULL if the
\* field is nil.
SameOptional(col, field) ==
    IF field = NilPtr THEN col = NULL ELSE col = Val(field[1])

\* A column holds the instant an optional time points to, or NULL if it is
\* nil.
SameOptionalInstant(col, field) ==
    IF field = NilPtr THEN col = NULL
    ELSE col # NULL /\ col[1].sec = field[1].sec

\* C31: the row stored for a record holds the record's fields one by one:
\* the identifier, the texts, the flags and the duration (negative ones
\* included) unchanged, the instants of its times, its tags as their JSON
\* text, and NULL for an absent project, workspace, client or stop.
C31_RowEqualsRecord ==
    /\ \A id \in DOMAIN latest.entries :
          LET e == latest.entries[id].rec IN
          \A i \in RowsOf(entryTable, id) :
            LET w == entryTable[i] IN
            /\ w.id = e.ID
            /\ w.description = e.Description
            /\ SameOptional(w.project_id, e.ProjectID)
            /\ SameOptional(w.workspace_id, e.WorkspaceID)
            /\ w.tags = MarshalTags(e.Tags)
            /\ w.start.sec = e.Start.sec
            /\ SameOptionalInstant(w.stop, e.Stop)
            /\ w.duration_sec = e.DurationSec
    /\ \A id \in DOMAIN latest.projects :
          LET p == latest.projects[id].rec IN
          \A i \in RowsOf(projectTable, id) :
            LET w == projectTable[i] IN
            /\ w.id = p.ID
            /\ w.workspace_id = p.WorkspaceID
            /\ w.name = p.Name
            /\ w.active = p.Active
            /\ w.is_private = p.Private
            /\ w.color = p.Color
            /\ SameOptional(w.client_id, p.ClientID)
            /\ w.at.sec = p.At.sec
    /\ \A i \in DOMAIN entryTable : entryTable[i].id \in DOMAIN latest.entries
    /\ \A i \in DOMAIN projectTable : projectTable[i].id \in DOMAIN latest.projects

\* A running entry without project, workspace and stop and a project
\* without client are stored.
C31_Witness ==
    /\ \E i \in DOMAIN entryTable :
          /\ entryTable[i].project_id = NULL
          /\ entryTable[i].workspace_id = NULL
          /\ entryTable[i].stop = NULL
          /\ entryTable[i].duration_sec < 0
    /\ \E i \in DOMAIN projectTable : projectTable[i].client_id = NULL

\* C32: one run of the migrator executes no two scripts with the same
\* version.
C32_OneScriptPerVersion ==
    \A j, k \in DOMAIN mig.ran :
        VersionOf(mig.ran[j]) = VersionOf(mig.ran[k]) => j = k

\* C33: with the scheduling loop as the only caller, every RunOnce finds
\* the guard free: the loop calls RunOnce only after the call before it has
\* returned and released the guard, however long that call took, so no call
\* returns "sync already running".
C33_LoopNeverRejected ==
    /\ [](/\ pc[Sched] # "rejected"
          /\ err[Sched] # ErrAlreadyRunning
          /\ (pc[Sched] = "tryBeginRun" => running = 0))
    /\ [][(pc[Sched] = "tryBeginRun" /\ pc'[Sched] # "tryBeginRun")
            => (pc'[Sched] = "ListProjects" /\ admitted'[Sched])]_vars

\* The run of a tick has lasted more than a day, after the run before it
\* failed, and the guard is held.
C33_Witness ==
    /\ ~flags.once /\ ~flags.daily
    /\ pc[Sched] = "ListTimeEntries"
    /\ running = 1
    /\ failed
    /\ window[Sched].to > boot
    /\ now > window[Sched].to + Day

\* C34: on a token that is empty, an RFC 3339 instant or a date, and with
\* any default, parseStart returns what parseStartHTTP returns and parseEnd
\* what parseEndHTTP returns; on any other token the command-line parsers
\* exit and the parsers of the trigger endpoint return the default.
C34_ParsersAgree ==
    LET v == probe.val
        d == probe.def
    IN IF Malformed(v)
       THEN /\ (probe.fn \in {"parseStart", "parseEnd"} => probe.out = Exit1)
            /\ (probe.fn \in {"parseStartHTTP", "parseEndHTTP"} => probe.out = Parsed(d))
       ELSE /\ (probe.fn = "parseStart" => probe.out = Parsed(parseStartHTTP(v, d)))
            /\ (probe.fn = "parseStartHTTP" => probe.out = parseStart(v, d))
            /\ (probe.fn = "parseEnd" => probe.out = Parsed(parseEndHTTP(v, d)))
            /\ (probe.fn = "parseEndHTTP" => probe.out = parseEnd(v, d))

\* The end date 2024-02-28 has been parsed on the command line, to the
\* midnight that starts the leap day.
C34_Witness ==
    /\ probe.fn = "parseEnd"
    /\ probe.val = DateToken(2024, 2, 28)
    /\ probe.def = TestNow - Day
    /\ probe.out = Parsed(DateUTC(2024, 2, 29))

\* C35: the /sync handler writes its response after RunOnce has returned
\* and released the guard, so the requests of a client that sends them one
\* after another, with no other caller, all find the guard free and none is
\* answered with 409.
C35_SequentialClientNoConflict ==
    /\ [][\A c \in Requests :
            (pc[c] = "returned" /\ pc'[c] = "responded")
              => (running = 0 /\ status'[c] # StatusConflict)]_vars
    /\ [](/\ \A c \in Requests : status[c] # StatusConflict /\ pc[c] # "rejected"
          /\ (\A c \in Requests : ~Holding(c)) => running = 0)

\* The client has its second successful response in a row.
C35_Witness ==
    /\ pc["h1"] = "responded"
    /\ status["h1"] = StatusOK
    /\ repeated.entries
    /\ running = 0

\* The process runs in periodic mode.
Periodic == ~flags.once /\ ~flags.daily

\* C36: in periodic mode main, once started, calls RunOnce right away with
\* the window of --from and --to, before the loop waits for its first tick;
\* when that run returns, with or without an error, the loop waits for its
\* ticks, and a tick starts a run.
C36_InitialRun ==
    /\ [][Periodic =>
            /\ ((pc[Sched] = "main" /\ pc'[Sched] # "main")
                  => \/ pc'[Sched] = "exited" /\ exit' = Ptr(1)
                     \/ /\ pc'[Sched] = "tryBeginRun"
                        /\ window'[Sched] = WindowOfFlags
                        /\ now = boot)
            /\ ((pc[Sched] = "returned" /\ pc'[Sched] # "returned")
                  => (pc'[Sched] = "idle" /\ exit' = NilPtr))]_vars
    /\ []((Periodic /\ pc[Sched] = "idle") => ENABLED Tick)

\* The run of a tick is in progress after the run made at startup, with
\* another window, has failed.
C36_Witness ==
    /\ Periodic
    /\ failed
    /\ pc[Sched] = "ListProjects"
    /\ window[Sched] = [from |-> now - Day, to |-> now]
    /\ WindowOfFlags # window[Sched]

====
